---- MODULE Spec2Model ----
(***************************************************************************)
(* A model of the recommendation engine: the Postgres tables behind        *)
(* VectorStore, the Redis cache, the in-process request cache of           *)
(* RecommendationService, and the entity, interaction and recommendation   *)
(* operations that read and write them.                                    *)
(*                                                                         *)
(* f32 values (weights, similarities, scores) are fixed-point integers in  *)
(* units of 1/SCALE.  Vectors are tuples of integers; only their direction *)
(* matters to the cosine similarity the code computes.                     *)
(***************************************************************************)
EXTENDS Integers, Sequences, FiniteSets, TLC

VARIABLES
    entities,          \* table entities: a set of rows
    interactions,      \* table interactions: a set of rows
    user_profiles,     \* table user_profiles: a set of rows
    interaction_types, \* table interaction_types: a set of rows
    updated_at,        \* column entities.updated_at: key of a row -> instant
    redis,             \* RedisCache: key -> stored value, over the keys present
    request_cache,     \* RecommendationService.request_cache (moka): key -> response
    profile_tasks,     \* spawned update_user_profile_async tasks not yet run
    epc, ereq, eres,   \* create_entity callers: position, arguments, result
    ipc, ireq,         \* record_interaction callers: position, arguments
    last_applied,      \* history: dedup key -> weight and metadata of the last applied call
    last_read,         \* history: the last vector-store read and the rows it selected
    pc, req, resp,     \* get_recommendations callers: position, request, response
    started,           \* number of recommendation and trending requests issued so far
    config,            \* HybridEngine.config: the two weights
    collab_in, content_in, combined,  \* combine_scores: its two inputs and its output
    concurrency_limit,  \* HybridEngine.concurrency_limit: the permits available
    hybrid_calls,       \* hybrid generate_recommendations calls at each position
    hybrid_run,         \* one hybrid generate_recommendations call and its two sub-tasks
    is_shutting_down,   \* AppState.is_shutting_down
    server,             \* axum::serve: serving, sleeping (signal handled), draining, exited
    elapsed,            \* seconds since the shutdown signal was handled
    in_flight,          \* HTTP connections and the request each one carries
    ready_probe,        \* the last answer of GET /ready
    validated,          \* the last request given to validate_request, and the result
    clock,              \* wall-clock time in seconds
    next_tick,          \* the instant of the incremental updater's next tick
    refresh_tasks,      \* spawned profile updates, each with the end of its sleep
    last_write,         \* per user, the instant of the last interaction write
    last_update,        \* the updater's last run: the cache before and after it
    redis_up,           \* whether the Redis server answers commands
    webhook_delivery,   \* ModelUpdater.webhook_delivery: the configured WebhookDelivery, if any
    webhook_tasks,      \* the tasks spawned by dispatch_async, in the order of their spawning
    extracted,          \* the extract_features calls made: attributes, iteration order, vector
    collab_call,        \* the last direct generate_recommendations call of the collaborative engine
    cold_start_call,    \* the last direct get_recommendations_with_cold_start call of that engine
    full_rebuild_task,  \* the task of start_full_rebuild: position, timer and rebuild starts
    index_rebuild,      \* rebuild_vector_indices: position, runs begun, which HNSW indexes exist
    pool_retry          \* create_pool_with_retry: position, attempts made and waits slept

vars == <<entities, interactions, user_profiles, interaction_types, updated_at, redis,
          request_cache, profile_tasks, epc, ereq, eres, ipc, ireq, last_applied,
          last_read, pc, req, resp, started, config, collab_in, content_in, combined,
          concurrency_limit, hybrid_calls, hybrid_run,
          is_shutting_down, server, elapsed, in_flight, ready_probe, validated,
          clock, next_tick, refresh_tasks, last_write, last_update, redis_up,
          webhook_delivery, webhook_tasks, extracted, collab_call, cold_start_call,
          full_rebuild_task, index_rebuild, pool_retry>>

dbVars == <<entities, interactions, user_profiles, interaction_types, updated_at>>
cacheVars == <<redis, request_cache>>
entityProcVars == <<epc, ereq, eres>>
interactionProcVars == <<ipc, ireq, last_applied>>
requestVars == <<pc, req, resp, started>>
scoreVars == <<config, collab_in, content_in, combined>>
hybridVars == <<concurrency_limit, hybrid_calls, hybrid_run>>
lifecycleVars == <<is_shutting_down, server, elapsed, in_flight, ready_probe>>
validationVars == <<validated>>
updaterVars == <<clock, next_tick, refresh_tasks, last_write, last_update>>
environmentVars == <<redis_up>>
backgroundVars == <<full_rebuild_task, index_rebuild, pool_retry>>
webhookVars == <<webhook_delivery, webhook_tasks>>
directCallVars == <<extracted, collab_call, cold_start_call>>
runtimeVars == <<hybridVars, lifecycleVars, validationVars, updaterVars, environmentVars,
                backgroundVars, webhookVars, directCallVars>>

----------------------------------------------------------------------------
(* Values *)

\* One unit of an f32 in the model: 1.0 is SCALE.
SCALE == 10000

None == "None"
NoVector == <<>>

Min(a, b) == IF a <= b THEN a ELSE b
Max(a, b) == IF a >= b THEN a ELSE b

\* a * b and a / b on fixed-point values
FMul(a, b) == (a * b) \div SCALE
FDiv(a, b) == (a * SCALE) \div b

RECURSIVE SumOver(_, _)
SumOver(f, S) ==
    IF S = {} THEN 0
    ELSE LET x == CHOOSE y \in S : TRUE IN f[x] + SumOver(f, S \ {x})

RECURSIVE Dot(_, _)
Dot(a, b) == IF a = <<>> THEN 0 ELSE Head(a) * Head(b) + Dot(Tail(a), Tail(b))

RECURSIVE ISqrtSearch(_, _, _)
ISqrtSearch(x, lo, hi) ==
    IF lo >= hi THEN lo
    ELSE LET mid == (lo + hi + 1) \div 2
         IN  IF mid * mid <= x THEN ISqrtSearch(x, mid, hi)
             ELSE ISqrtSearch(x, lo, mid - 1)

ISqrt(x) == ISqrtSearch(x, 0, 46340)

\* pgvector's 1 - (a <=> b): the cosine of the angle between a and b
PgCosineSimilarity(a, b) ==
    IF Len(a) # Len(b) \/ a = <<>> THEN 0
    ELSE LET m == ISqrt(Dot(a, a) * Dot(b, b))
         IN  IF m = 0 THEN 0 ELSE (SCALE * Dot(a, b)) \div m

\* A faulty variant of truncate: the list is left as long as it is
Truncate_Keep(s, n) == s

\* Vec::truncate(n), and LIMIT n over ordered rows
Truncate(s, n) == SubSeq(s, 1, Min(n, Len(s)))

\* Vec::sort_by(|a, b| b.score.partial_cmp(&a.score)): stable, descending
RECURSIVE InsertDesc(_, _)
InsertDesc(s, e) ==
    IF s = <<>> THEN <<e>>
    ELSE IF Head(s).score >= e.score THEN <<Head(s)>> \o InsertDesc(Tail(s), e)
         ELSE <<e>> \o s

RECURSIVE SortDesc(_)
SortDesc(s) ==
    IF s = <<>> THEN <<>>
    ELSE InsertDesc(SortDesc(SubSeq(s, 1, Len(s) - 1)), s[Len(s)])

Range(s) == {s[i] : i \in DOMAIN s}

\* The position of x in the sequence rk (rk lists every value once)
Pos(rk, x) == CHOOSE i \in DOMAIN rk : rk[i] = x

\* The elements of the set S of records with an entity_id, in the order rk gives
\* their ids: the order in which a HashMap or an unordered query yields them.
RECURSIVE InOrder(_, _)
InOrder(S, rk) ==
    IF S = {} THEN <<>>
    ELSE LET x == CHOOSE y \in S : \A z \in S : Pos(rk, y.entity_id) <= Pos(rk, z.entity_id)
         IN  <<x>> \o InOrder(S \ {x}, rk)

----------------------------------------------------------------------------
(* VectorStore: entities *)

\* The unique key of table entities
EntityKey(e) == <<e.tenant_id, e.entity_id, e.entity_type>>

\* Column updated_at once a statement run at the instant now has left table:
\* the rows of keys and the new rows carry now, the rows deleted are gone
StampedAt(stamps, table, keys, now) ==
    [k \in {EntityKey(e) : e \in table} |->
        IF k \in keys \/ k \notin DOMAIN stamps THEN now ELSE stamps[k]]

\* A faulty variant of get_entity: the WHERE clause without tenant_id
VectorStore_get_entity_AnyTenant(ctx, entity_id, entity_type) ==
    {e \in entities : /\ e.entity_id = entity_id
                      /\ e.entity_type = entity_type}

\* SELECT ... FROM entities WHERE tenant_id = $1 AND entity_id = $2 AND
\* entity_type = $3: the rows selected (none: None)
VectorStore_get_entity(ctx, entity_id, entity_type) ==
    {e \in entities : /\ e.tenant_id = ctx
                      /\ e.entity_id = entity_id
                      /\ e.entity_type = entity_type}

\* A faulty variant of create_entity: an upsert, which never reports a duplicate
VectorStore_create_entity_Upsert(ctx, entity_id, entity_type, attributes, feature_vector) ==
    LET row == [tenant_id |-> ctx, entity_id |-> entity_id, entity_type |-> entity_type,
                attributes |-> attributes, feature_vector |-> feature_vector]
    IN  [result |-> "Ok",
         table |-> {e \in entities : EntityKey(e) # EntityKey(row)} \cup {row}]

\* INSERT INTO entities: a row with the key of an existing row violates the
\* unique key, and the "duplicate key" error is mapped to InvalidRequest.
VectorStore_create_entity(ctx, entity_id, entity_type, attributes, feature_vector) ==
    LET row == [tenant_id |-> ctx, entity_id |-> entity_id, entity_type |-> entity_type,
                attributes |-> attributes, feature_vector |-> feature_vector]
    IN  IF \E e \in entities : EntityKey(e) = EntityKey(row)
        THEN [result |-> "InvalidRequest", table |-> entities]
        ELSE [result |-> "Ok", table |-> entities \cup {row}]

\* INSERT of a whole batch in one statement: one duplicate fails the batch.
VectorStore_batch_insert_entities(ctx, batch) ==
    LET rows == {[tenant_id |-> ctx, entity_id |-> b.entity_id, entity_type |-> b.entity_type,
                  attributes |-> b.attributes, feature_vector |-> b.feature_vector] : b \in batch}
    IN  IF \/ \E r \in rows : \E e \in entities : EntityKey(e) = EntityKey(r)
           \/ \E r1, r2 \in rows : r1 # r2 /\ EntityKey(r1) = EntityKey(r2)
        THEN [result |-> "Err", table |-> entities]
        ELSE [result |-> "Ok", table |-> entities \cup rows]

\* SELECT ... WHERE tenant_id, entity_type, entity_id != exclude, feature_vector
\* IS NOT NULL, similarity >= threshold: the rows selected
VectorStore_find_similar_entities_rows(ctx, query_vector, entity_type, threshold, exclude_id) ==
    {e \in entities : /\ e.tenant_id = ctx
                      /\ e.entity_type = entity_type
                      /\ e.entity_id # exclude_id
                      /\ e.feature_vector # NoVector
                      /\ PgCosineSimilarity(e.feature_vector, query_vector) >= threshold}

\* find_similar_entities: the rows as (entity, similarity), ORDER BY distance
\* LIMIT limit; rows at the same distance come in the order rk
VectorStore_find_similar_entities(ctx, query_vector, entity_type, threshold, limit, exclude_id, rk) ==
    LET rows == VectorStore_find_similar_entities_rows(ctx, query_vector, entity_type,
                                                       threshold, exclude_id)
        scored == {[entity_id |-> e.entity_id, entity_type |-> e.entity_type,
                    score |-> PgCosineSimilarity(e.feature_vector, query_vector)] : e \in rows}
    IN  Truncate(SortDesc(InOrder(scored, rk)), limit)

----------------------------------------------------------------------------
(* EntityService *)

AttributeSets == {"attrs1", "attrs2", "attrs3"}

\* FeatureExtractor: the vector an attribute map is turned into
compute_feature_vector(attributes) ==
    CASE attributes = "attrs1" -> <<80, 60>>
      [] attributes = "attrs2" -> <<60, 80>>
      [] attributes = "attrs3" -> <<0, 100>>

\* create_entity up to its uniqueness check
CreateEntityCheck(p, ctx, entity_id, entity_type, attributes) ==
    /\ epc[p] = "idle"
    /\ ereq' = [ereq EXCEPT ![p] = [ctx |-> ctx, entity_id |-> entity_id,
                                    entity_type |-> entity_type, attributes |-> attributes]]
    /\ LET existing == VectorStore_get_entity(ctx, entity_id, entity_type)
       IN  IF existing # {}
           THEN /\ epc' = [epc EXCEPT ![p] = "done"]
                /\ eres' = [eres EXCEPT ![p] = [result |-> "InvalidRequest", at |-> "check",
                                                before |-> existing, after |-> existing]]
           ELSE /\ epc' = [epc EXCEPT ![p] = "insert"]
                /\ eres' = eres
    /\ UNCHANGED <<dbVars, cacheVars,
                   profile_tasks, interactionProcVars, last_read, requestVars, scoreVars,
                   runtimeVars>>

\* create_entity from compute_feature_vector on: the INSERT
CreateEntityInsert(p) ==
    /\ epc[p] = "insert"
    /\ LET r == ereq[p]
           out == VectorStore_create_entity(r.ctx, r.entity_id, r.entity_type, r.attributes,
                                            compute_feature_vector(r.attributes))
           before == VectorStore_get_entity(r.ctx, r.entity_id, r.entity_type)
       IN  /\ entities' = out.table
           /\ updated_at' = StampedAt(updated_at, out.table, {}, clock)
           /\ eres' = [eres EXCEPT ![p] =
                         [result |-> out.result, at |-> "insert", before |-> before,
                          after |-> {e \in out.table : EntityKey(e) =
                                         <<r.ctx, r.entity_id, r.entity_type>>}]]
    /\ epc' = [epc EXCEPT ![p] = "done"]
    /\ UNCHANGED <<ereq, interactions, user_profiles, interaction_types, cacheVars,
                   profile_tasks, interactionProcVars, last_read, requestVars, scoreVars,
                   runtimeVars>>

\* The caller takes the result
CreateEntityReturn(p) ==
    /\ epc[p] = "done"
    /\ epc' = [epc EXCEPT ![p] = "idle"]
    /\ ereq' = [ereq EXCEPT ![p] = None]
    /\ eres' = [eres EXCEPT ![p] = None]
    /\ UNCHANGED <<dbVars, cacheVars, profile_tasks, interactionProcVars, last_read,
                   requestVars, scoreVars, runtimeVars>>

----------------------------------------------------------------------------
(* VectorStore: interactions, interaction types, user profiles *)

\* The columns of ON CONFLICT (tenant_id, user_id, entity_id, interaction_type, timestamp)
InteractionKey(i) == <<i.tenant_id, i.user_id, i.entity_id, i.interaction_type, i.timestamp>>

\* InteractionType::default_weight
default_weight(interaction_type) ==
    CASE interaction_type = "view" -> 1 * SCALE
      [] interaction_type = "add_to_cart" -> 3 * SCALE
      [] interaction_type = "purchase" -> 5 * SCALE
      [] interaction_type = "like" -> 2 * SCALE
      [] OTHER -> 1 * SCALE

\* SELECT ... FROM interaction_types WHERE tenant_id = $1 AND interaction_type = $2
VectorStore_get_interaction_type(ctx, type_str) ==
    {t \in interaction_types : t.tenant_id = ctx /\ t.interaction_type = type_str}

\* The registered weight of the type, or else its default weight
VectorStore_get_interaction_weight(ctx, interaction_type) ==
    LET registered == VectorStore_get_interaction_type(ctx, interaction_type)
    IN  IF registered # {} THEN (CHOOSE t \in registered : TRUE).weight
        ELSE default_weight(interaction_type)

\* INSERT ... ON CONFLICT (tenant_id, interaction_type) DO UPDATE SET weight
VectorStore_register_interaction_type(ctx, interaction_type, weight) ==
    {t \in interaction_types : ~(t.tenant_id = ctx /\ t.interaction_type = interaction_type)}
        \cup {[tenant_id |-> ctx, interaction_type |-> interaction_type, weight |-> weight]}

\* A faulty variant of record_interaction: ON CONFLICT ... DO NOTHING
VectorStore_record_interaction_DoNothing(ctx, user_id, entity_id, entity_type, interaction_type, weight, metadata, timestamp) ==
    LET row == [tenant_id |-> ctx, user_id |-> user_id, entity_id |-> entity_id,
                entity_type |-> entity_type, interaction_type |-> interaction_type,
                weight |-> weight, metadata |-> metadata, timestamp |-> timestamp]
    IN  IF \E i \in interactions : InteractionKey(i) = InteractionKey(row)
        THEN interactions
        ELSE interactions \cup {row}

\* INSERT INTO interactions ... ON CONFLICT (key) DO UPDATE SET weight =
\* EXCLUDED.weight, metadata = EXCLUDED.metadata: the table afterwards
VectorStore_record_interaction(ctx, user_id, entity_id, entity_type, interaction_type, weight, metadata, timestamp) ==
    LET row == [tenant_id |-> ctx, user_id |-> user_id, entity_id |-> entity_id,
                entity_type |-> entity_type, interaction_type |-> interaction_type,
                weight |-> weight, metadata |-> metadata, timestamp |-> timestamp]
    IN  IF \E i \in interactions : InteractionKey(i) = InteractionKey(row)
        THEN {IF InteractionKey(i) = InteractionKey(row)
              THEN [i EXCEPT !.weight = weight, !.metadata = metadata]
              ELSE i : i \in interactions}
        ELSE interactions \cup {row}

\* INSERT of a batch ... ON CONFLICT (key) DO NOTHING
VectorStore_bulk_import_interactions(ctx, batch) ==
    interactions \cup
        {[tenant_id |-> ctx, user_id |-> b.user_id, entity_id |-> b.entity_id,
          entity_type |-> b.entity_type, interaction_type |-> b.interaction_type,
          weight |-> b.weight, metadata |-> b.metadata, timestamp |-> b.timestamp] :
            b \in {x \in batch : ~\E i \in interactions :
                       InteractionKey(i) = <<ctx, x.user_id, x.entity_id,
                                             x.interaction_type, x.timestamp>>}}

\* The limit rows of S with the latest timestamps (ORDER BY timestamp DESC LIMIT)
RECURSIVE MostRecent(_, _)
MostRecent(S, limit) ==
    IF S = {} \/ limit = 0 THEN {}
    ELSE LET x == CHOOSE y \in S : \A z \in S : y.timestamp >= z.timestamp
         IN  {x} \cup MostRecent(S \ {x}, limit - 1)

\* SELECT ... FROM interactions WHERE tenant_id = $1 AND user_id = $2 ORDER BY
\* timestamp DESC LIMIT $3 (every caller passes offset 0)
VectorStore_get_user_interactions(ctx, user_id, limit) ==
    MostRecent({i \in interactions : i.tenant_id = ctx /\ i.user_id = user_id}, limit)

\* SELECT COUNT(*) FROM interactions WHERE tenant_id = $1 AND user_id = $2
VectorStore_get_user_interaction_count(ctx, user_id) ==
    Cardinality({i \in interactions : i.tenant_id = ctx /\ i.user_id = user_id})

\* SELECT DISTINCT entity_id FROM interactions WHERE tenant_id = $1 AND user_id = $2
VectorStore_get_user_interacted_entities(ctx, user_id) ==
    {i.entity_id : i \in {j \in interactions : j.tenant_id = ctx /\ j.user_id = user_id}}

\* The unique key of table user_profiles (ON CONFLICT (tenant_id, user_id))
ProfileKey(p) == <<p.tenant_id, p.user_id>>

\* INSERT INTO user_profiles ... ON CONFLICT (tenant_id, user_id) DO UPDATE SET
VectorStore_upsert_user_profile(ctx, user_id, preference_vector, interaction_count) ==
    {p \in user_profiles : ProfileKey(p) # <<ctx, user_id>>}
        \cup {[tenant_id |-> ctx, user_id |-> user_id,
               preference_vector |-> preference_vector,
               interaction_count |-> interaction_count]}

\* SELECT ... FROM user_profiles WHERE tenant_id = $1 AND user_id = $2
VectorStore_get_user_profile(ctx, user_id) ==
    {p \in user_profiles : p.tenant_id = ctx /\ p.user_id = user_id}

\* The join of compute_user_preference_vector: interactions of the user with the
\* entity rows of the same tenant, id and type that have a feature vector
PreferenceJoin(ctx, user_id) ==
    {<<i, e>> \in interactions \X entities :
        /\ i.tenant_id = e.tenant_id /\ i.entity_id = e.entity_id
        /\ i.entity_type = e.entity_type
        /\ i.tenant_id = ctx /\ i.user_id = user_id
        /\ e.feature_vector # NoVector}

\* The mean of the joined feature vectors weighted by the interaction weights
VectorStore_compute_user_preference_vector(ctx, user_id) ==
    LET rows == PreferenceJoin(ctx, user_id)
        total_weight == SumOver([r \in rows |-> r[1].weight], rows)
        dims == DOMAIN (CHOOSE r \in rows : TRUE)[2].feature_vector
        agg == [k \in dims |-> SumOver([r \in rows |-> r[2].feature_vector[k] * r[1].weight],
                                       rows)]
    IN  IF rows = {} THEN NoVector
        ELSE IF total_weight > 0 THEN [k \in dims |-> agg[k] \div total_weight]
        ELSE agg

\* SELECT ... FROM user_profiles WHERE tenant_id = $2 AND user_id != $3 AND
\* preference_vector IS NOT NULL: the rows selected
VectorStore_find_similar_users_rows(ctx, exclude_user_id) ==
    {p \in user_profiles : /\ p.tenant_id = ctx
                           /\ p.user_id # exclude_user_id
                           /\ p.preference_vector # NoVector}

\* The window of get_trending_entity_stats, in days
TrendingWindowDays == 7

\* The day every operation of the model runs on
Now == TrendingWindowDays + 3

\* SELECT ... FROM interactions WHERE tenant_id = $1 [AND entity_type = $2] AND
\* timestamp >= seven_days_ago: the rows selected
VectorStore_get_trending_entity_stats_rows(ctx, entity_type) ==
    {i \in interactions : /\ i.tenant_id = ctx
                          /\ (entity_type # None => i.entity_type = entity_type)
                          /\ i.timestamp >= Now - TrendingWindowDays}

\* ... GROUP BY entity_id, entity_type ORDER BY total_weight DESC LIMIT limit;
\* groups of the same total weight come in the order rk
VectorStore_get_trending_entity_stats(ctx, entity_type, limit, rk) ==
    LET rows == VectorStore_get_trending_entity_stats_rows(ctx, entity_type)
        groups == {<<i.entity_id, i.entity_type>> : i \in rows}
        stats == {[entity_id |-> g[1], entity_type |-> g[2],
                   score |-> LET members == {i \in rows : i.entity_id = g[1]
                                                         /\ i.entity_type = g[2]}
                             IN  SumOver([i \in members |-> i.weight], members)] :
                      g \in groups}
    IN  Truncate(SortDesc(InOrder(stats, rk)), limit)

----------------------------------------------------------------------------
(* InteractionService *)

\* record_interaction up to the weight lookup in the registry; the optional
\* timestamp is <<>> or <<t>>
RecordInteractionBegin(w, ctx, user_id, entity_id, entity_type, interaction_type, metadata, timestamp) ==
    /\ ipc[w] = "idle"
    /\ ireq' = [ireq EXCEPT ![w] =
                  [ctx |-> ctx, user_id |-> user_id, entity_id |-> entity_id,
                   entity_type |-> entity_type, interaction_type |-> interaction_type,
                   metadata |-> metadata,
                   timestamp |-> IF timestamp = <<>> THEN Now ELSE timestamp[1],
                   weight |-> VectorStore_get_interaction_weight(ctx, interaction_type)]]
    /\ ipc' = [ipc EXCEPT ![w] = "apply"]
    /\ UNCHANGED <<dbVars, cacheVars, profile_tasks, entityProcVars, last_applied,
                   last_read, requestVars, scoreVars, runtimeVars>>

\* record_interaction from the upsert on: the row is written and the profile
\* update is spawned (it runs after its 5 s sleep, as ProfileRefresh)
RecordInteractionApply(w) ==
    /\ ipc[w] = "apply"
    /\ LET r == ireq[w]
           k == <<r.ctx, r.user_id, r.entity_id, r.interaction_type, r.timestamp>>
           this == [weight |-> r.weight, metadata |-> r.metadata]
       IN  /\ interactions' = VectorStore_record_interaction(
                                  r.ctx, r.user_id, r.entity_id, r.entity_type,
                                  r.interaction_type, r.weight, r.metadata, r.timestamp)
           /\ profile_tasks' = profile_tasks \cup {<<r.ctx, r.user_id>>}
           /\ last_applied' =
                [x \in DOMAIN last_applied \cup {k} |->
                    IF x # k THEN last_applied[x]
                    ELSE IF k \in DOMAIN last_applied
                         THEN [last |-> this, first |-> last_applied[k].first]
                         ELSE [last |-> this, first |-> this]]
    /\ ipc' = [ipc EXCEPT ![w] = "idle"]
    /\ ireq' = [ireq EXCEPT ![w] = None]
    /\ UNCHANGED <<entities, updated_at, user_profiles, interaction_types, cacheVars, entityProcVars,
                   last_read, requestVars, scoreVars, runtimeVars>>

\* update_user_profile_async: nothing is written when no interaction of the
\* user joins an entity with a feature vector
ProfileRefresh(ctx, user_id) ==
    /\ <<ctx, user_id>> \in profile_tasks
    /\ profile_tasks' = profile_tasks \ {<<ctx, user_id>>}
    /\ LET preference_vector == VectorStore_compute_user_preference_vector(ctx, user_id)
       IN  IF preference_vector = NoVector
           THEN user_profiles' = user_profiles
           ELSE user_profiles' = VectorStore_upsert_user_profile(
                                     ctx, user_id, preference_vector,
                                     VectorStore_get_user_interaction_count(ctx, user_id))
    /\ UNCHANGED <<entities, updated_at, interactions, interaction_types, cacheVars, entityProcVars,
                   interactionProcVars, last_read, requestVars, scoreVars, runtimeVars>>

\* register_interaction_type
RegisterInteractionType(ctx, interaction_type, weight) ==
    /\ interaction_types' = VectorStore_register_interaction_type(ctx, interaction_type, weight)
    /\ UNCHANGED <<entities, updated_at, interactions, user_profiles, cacheVars, profile_tasks,
                   entityProcVars, interactionProcVars, last_read, requestVars, scoreVars,
                   runtimeVars>>

----------------------------------------------------------------------------
(* Vector-store reads: the rows each query selects under a tenant context *)

ReadFrame == UNCHANGED <<dbVars, cacheVars, profile_tasks, entityProcVars,
                         interactionProcVars, requestVars, scoreVars, runtimeVars>>

ReadEntity(ctx, entity_id, entity_type) ==
    /\ last_read' = [op |-> "get_entity", ctx |-> ctx, entity_id |-> entity_id,
                     rows |-> VectorStore_get_entity(ctx, entity_id, entity_type),
                     present |-> \E e \in entities : EntityKey(e) = <<ctx, entity_id, entity_type>>,
                     elsewhere |-> \E e \in entities : /\ e.tenant_id # ctx
                                                       /\ e.entity_id = entity_id
                                                       /\ e.entity_type = entity_type]
    /\ ReadFrame

ReadRows(op, ctx, rows) ==
    /\ last_read' = [op |-> op, ctx |-> ctx, entity_id |-> None, rows |-> rows,
                     present |-> FALSE, elsewhere |-> FALSE]
    /\ ReadFrame

ReadUserInteractions(ctx, user_id, limit) ==
    ReadRows("get_user_interactions", ctx, VectorStore_get_user_interactions(ctx, user_id, limit))

ReadUserProfile(ctx, user_id) ==
    ReadRows("get_user_profile", ctx, VectorStore_get_user_profile(ctx, user_id))

ReadSimilarEntities(ctx, query_vector, entity_type, threshold) ==
    ReadRows("find_similar_entities", ctx,
             VectorStore_find_similar_entities_rows(ctx, query_vector, entity_type,
                                                    threshold, None))

ReadSimilarUsers(ctx, exclude_user_id) ==
    ReadRows("find_similar_users", ctx, VectorStore_find_similar_users_rows(ctx, exclude_user_id))

ReadTrendingStats(ctx, entity_type) ==
    ReadRows("get_trending_entity_stats", ctx,
             VectorStore_get_trending_entity_stats_rows(ctx, entity_type))

ReadPreferenceJoin(ctx, user_id) ==
    ReadRows("compute_user_preference_vector", ctx,
             {r[1] : r \in PreferenceJoin(ctx, user_id)}
                 \cup {r[2] : r \in PreferenceJoin(ctx, user_id)})

----------------------------------------------------------------------------
(* The state after construction: empty tables, empty caches, idle callers *)

Tenants == {"A", "B"}

EntityProcs == {"c1", "c2"}
InteractionProcs == {"w1", "w2"}
RequestProcs == {"p1", "p2"}

\* HybridConfig::default
\* Semaphore::new(100)
SemaphorePermits == 100

HybridConfigDefault == [collaborative_weight |-> (6 * SCALE) \div 10,
                        content_weight |-> (4 * SCALE) \div 10,
                        enable_diversity |-> TRUE, min_categories |-> 3]

InitTables ==
    /\ entities = {}
    /\ interactions = {}
    /\ user_profiles = {}
    /\ interaction_types = {}
    /\ updated_at = <<>>
    /\ profile_tasks = {}

InitCaches ==
    /\ redis = <<>>
    /\ request_cache = <<>>

InitCallers ==
    /\ epc = [p \in EntityProcs |-> "idle"]
    /\ ereq = [p \in EntityProcs |-> None]
    /\ eres = [p \in EntityProcs |-> None]
    /\ ipc = [w \in InteractionProcs |-> "idle"]
    /\ ireq = [w \in InteractionProcs |-> None]
    /\ last_applied = <<>>
    /\ last_read = [op |-> "none"]
    /\ pc = [p \in RequestProcs |-> "idle"]
    /\ req = [p \in RequestProcs |-> None]
    /\ resp = [p \in RequestProcs |-> None]
    /\ started = 0

InitScores ==
    /\ config = HybridConfigDefault
    /\ collab_in = <<>>
    /\ content_in = <<>>
    /\ combined = <<>>

\* HybridEngine::new: Semaphore::new(100), and no call in progress
Connections == {"c1", "c2"}

InitRuntime ==
    /\ concurrency_limit = SemaphorePermits
    /\ hybrid_calls = [waiting |-> 0, lookup |-> 0, engines |-> 0]
    /\ hybrid_run = [pc |-> "idle"]
    /\ is_shutting_down = FALSE
    /\ server = "serving"
    /\ elapsed = 0
    /\ in_flight = [c \in Connections |-> [pc |-> "none", at_signal |-> FALSE]]
    /\ ready_probe = [answered |-> FALSE]
    /\ validated = [called |-> FALSE]
    /\ clock = Now
    /\ next_tick = Now
    /\ refresh_tasks = {}
    /\ last_write = <<>>
    /\ last_update = [kind |-> "none"]
    /\ redis_up = TRUE
    /\ webhook_delivery = [configured |-> FALSE]
    /\ webhook_tasks = <<>>
    /\ extracted = <<>>
    /\ collab_call = [called |-> FALSE]
    /\ cold_start_call = [called |-> FALSE]
    /\ full_rebuild_task = [pc |-> "unspawned"]
    /\ index_rebuild = [pc |-> "idle", entity_index |-> TRUE, user_index |-> TRUE, runs |-> 0]
    /\ pool_retry = [pc |-> "unstarted"]

Init == InitTables /\ InitCaches /\ InitCallers /\ InitScores /\ InitRuntime

----------------------------------------------------------------------------
(* SpecEntity: concurrent create_entity calls *)

NextEntity ==
    \/ \E p \in EntityProcs, ctx \in Tenants, attributes \in {"attrs1", "attrs2"} :
           CreateEntityCheck(p, ctx, "e1", "product", attributes)
    \/ \E p \in EntityProcs : CreateEntityInsert(p)
    \/ \E p \in EntityProcs : CreateEntityReturn(p)

SpecEntity == Init /\ [][NextEntity]_vars

----------------------------------------------------------------------------
(* SpecInteraction: concurrent record_interaction calls and registry changes *)

NextInteraction ==
    \/ \E w \in InteractionProcs, metadata \in {"m1", "m2"}, timestamp \in {<<>>, <<Now>>} :
           RecordInteractionBegin(w, "A", "u1", "e1", "product", "view", metadata, timestamp)
    \/ \E w \in InteractionProcs : RecordInteractionApply(w)
    \/ RegisterInteractionType("A", "view", 2 * SCALE)
    \/ ProfileRefresh("A", "u1")

SpecInteraction == Init /\ [][NextInteraction]_vars

----------------------------------------------------------------------------
(* SpecStore: every vector-store read, over tables two tenants write *)

\* What the two tenants write: tenant A an entity e1 and an interaction with it,
\* tenant B an entity e2 and an interaction with it
StoreInputs == {[ctx |-> "A", entity_id |-> "e1", attributes |-> "attrs1"],
                [ctx |-> "B", entity_id |-> "e2", attributes |-> "attrs2"]}

StoreIds == {"e1", "e2"}

NextStore ==
    \/ \E i \in StoreInputs :
           CreateEntityCheck("c1", i.ctx, i.entity_id, "product", i.attributes)
    \/ CreateEntityInsert("c1")
    \/ CreateEntityReturn("c1")
    \/ \E i \in StoreInputs :
           RecordInteractionBegin("w1", i.ctx, "u1", i.entity_id, "product", "view", None, <<>>)
    \/ RecordInteractionApply("w1")
    \/ \E ctx \in Tenants : ProfileRefresh(ctx, "u1")
    \/ \E ctx \in Tenants, entity_id \in StoreIds : ReadEntity(ctx, entity_id, "product")
    \/ \E ctx \in Tenants : ReadUserInteractions(ctx, "u1", 1)
    \/ \E ctx \in Tenants : ReadUserProfile(ctx, "u1")
    \/ \E ctx \in Tenants : ReadSimilarEntities(ctx, <<80, 60>>, "product", SCALE \div 2)
    \/ \E ctx \in Tenants : ReadSimilarUsers(ctx, "u2")
    \/ \E ctx \in Tenants, entity_type \in {None, "product"} : ReadTrendingStats(ctx, entity_type)
    \/ \E ctx \in Tenants : ReadPreferenceJoin(ctx, "u1")

SpecStore == Init /\ [][NextStore]_vars

----------------------------------------------------------------------------
(* RedisCache: get::<T> yields a value only if one of type T is stored.     *)
(* While the server does not answer, get and set return                     *)
(* CacheError::ConnectionError; every caller that serves a request takes    *)
(* the value with `if let Ok(Some(..))` and drops the result of set with    *)
(* `let _ =`, so a failed get reads as a miss and a failed set stores       *)
(* nothing.                                                                 *)

\* A cached Vec<ScoredEntity>: a JSON array of objects
CachedList(list) ==
    [kind |-> "list", list |-> list, cold_start |-> FALSE, algorithm |-> None]

\* serde_json::from_str::<T> on a stored value.  A value written as T is read
\* back.  A JSON array of arrays (kind "tuples") read as Vec<ScoredEntity>:
\* the derived Deserialize of ScoredEntity takes an array as the sequence of
\* its four fields in their order and fails on an array of another length.
\* Every other pair fails.
Deserialize(value, kind) ==
    IF value.kind = kind THEN <<value>>
    ELSE IF kind = "list" /\ value.kind = "tuples"
                          /\ \A i \in DOMAIN value.list : Len(value.list[i]) = 4
    THEN <<CachedList([i \in DOMAIN value.list |->
                          [entity_id |-> value.list[i][1],
                           entity_type |-> value.list[i][2],
                           score |-> value.list[i][3]]])>>
    ELSE <<>>

RedisCache_get(r, key, kind) ==
    IF ~redis_up THEN [result |-> "ConnectionError", value |-> <<>>]
    ELSE IF key \notin DOMAIN r THEN [result |-> "Ok", value |-> <<>>]
    ELSE IF Deserialize(r[key], kind) = <<>>
    THEN [result |-> "SerializationError", value |-> <<>>]
    ELSE [result |-> "Ok", value |-> Deserialize(r[key], kind)]

RedisCache_set(r, key, value) ==
    IF ~redis_up THEN [result |-> "ConnectionError", redis |-> r]
    ELSE [result |-> "Ok",
          redis |-> [k \in DOMAIN r \cup {key} |-> IF k = key THEN value ELSE r[k]]]

\* The entry is served whether or not the server answers
RedisGet_Unchecked(r, key, kind) ==
    IF key \in DOMAIN r /\ r[key].kind = kind THEN <<r[key]>> ELSE <<>>

\* if let Ok(Some(cached)) = cache.get(key)
RedisGet(r, key, kind) ==
    LET got == RedisCache_get(r, key, kind)
    IN  IF got.result = "Ok" THEN got.value ELSE <<>>

\* let _ = cache.set(key, value, ttl)
RedisSet(r, key, value) == RedisCache_set(r, key, value).redis

\* moka Cache::insert of the in-process request cache
RequestCache_insert(c, key, value) ==
    [k \in DOMAIN c \cup {key} |-> IF k = key THEN value ELSE c[k]]

\* entity_type.unwrap_or("all")
TypeOrAll(entity_type) == IF entity_type = None THEN "all" ELSE entity_type

\* The largest score of a non-empty list
MaxScore(list) == CHOOSE m \in {list[i].score : i \in DOMAIN list} :
                      \A i \in DOMAIN list : list[i].score <= m

\* The smallest score of a non-empty list
MinScore(list) == CHOOSE m \in {list[i].score : i \in DOMAIN list} :
                      \A i \in DOMAIN list : m <= list[i].score

\* The entity ids of a list
Ids(list) == {list[i].entity_id : i \in DOMAIN list}

----------------------------------------------------------------------------
(* CollaborativeFilteringEngine *)

\* CollaborativeConfig::default
k_neighbors == 50
min_similarity == SCALE \div 10

\* The limit rows of S with the highest similarity (ORDER BY distance LIMIT)
RECURSIVE MostSimilar(_, _)
MostSimilar(S, limit) ==
    IF S = {} \/ limit = 0 THEN {}
    ELSE LET x == CHOOSE y \in S : \A z \in S : y.similarity >= z.similarity
         IN  {x} \cup MostSimilar(S \ {x}, limit - 1)

\* VectorStore::find_similar_users: the k nearest profiles with their similarity
VectorStore_find_similar_users(ctx, preference_vector, k, exclude_user_id) ==
    MostSimilar({[user_id |-> p.user_id,
                  similarity |-> PgCosineSimilarity(p.preference_vector, preference_vector)] :
                     p \in VectorStore_find_similar_users_rows(ctx, exclude_user_id)}, k)

CollaborativeFilteringEngine_find_similar_users(ctx, user_id) ==
    LET profile == VectorStore_get_user_profile(ctx, user_id)
    IN  IF profile = {} THEN [result |-> "EntityNotFound", users |-> {}]
        ELSE LET p == CHOOSE x \in profile : TRUE
             IN  IF p.preference_vector = NoVector THEN [result |-> "Ok", users |-> {}]
                 ELSE [result |-> "Ok",
                       users |-> {u \in VectorStore_find_similar_users(
                                            ctx, p.preference_vector, k_neighbors, user_id) :
                                     u.similarity >= min_similarity}]

\* aggregate_recommendations_from_neighbors: weight * similarity summed per
\* entity id over the neighbours' latest 100 interactions; an id is resolved
\* under the entity_type filter and dropped when there is no filter.  The
\* HashMap yields the entities in the order rk.
CollaborativeFilteringEngine_aggregate_recommendations_from_neighbors(ctx, similar_users, exclude_entities, entity_type_filter, rk) ==
    LET contributions ==
            UNION {{<<u, i>> : i \in {j \in VectorStore_get_user_interactions(ctx, u.user_id, 100) :
                                         j.entity_id \notin exclude_entities}} :
                      u \in similar_users}
        ids == {c[2].entity_id : c \in contributions}
        score(id) == LET mine == {c \in contributions : c[2].entity_id = id}
                     IN  SumOver([c \in mine |-> FMul(c[2].weight, c[1].similarity)], mine)
        resolved == IF entity_type_filter = None THEN {}
                    ELSE UNION {{[entity_id |-> e.entity_id, entity_type |-> e.entity_type,
                                  score |-> score(id)] :
                                     e \in VectorStore_get_entity(ctx, id, entity_type_filter)} :
                                   id \in ids}
    IN  InOrder(resolved, rk)

CollaborativeFilteringEngine_generate_recommendations(ctx, user_id, count, entity_type, rk) ==
    LET interacted_set == VectorStore_get_user_interacted_entities(ctx, user_id)
        from(similar) ==
            IF similar.result # "Ok" THEN [result |-> similar.result, list |-> <<>>]
            ELSE IF similar.users = {} THEN [result |-> "Ok", list |-> <<>>]
            ELSE [result |-> "Ok",
                  list |-> Truncate(SortDesc(
                               CollaborativeFilteringEngine_aggregate_recommendations_from_neighbors(
                                   ctx, similar.users, interacted_set, entity_type, rk)), count)]
    IN  from(CollaborativeFilteringEngine_find_similar_users(ctx, user_id))

COLD_START_THRESHOLD == 5

\* A faulty variant of is_cold_start_user: a user without a profile is not cold
CollaborativeFilteringEngine_is_cold_start_user_NoProfileWarm(ctx, user_id) ==
    LET profile == VectorStore_get_user_profile(ctx, user_id)
    IN  profile # {} /\ (CHOOSE p \in profile : TRUE).interaction_count < COLD_START_THRESHOLD

CollaborativeFilteringEngine_is_cold_start_user(ctx, user_id) ==
    LET profile == VectorStore_get_user_profile(ctx, user_id)
    IN  IF profile = {} THEN TRUE
        ELSE (CHOOSE p \in profile : TRUE).interaction_count < COLD_START_THRESHOLD

\* score /= max_score when the largest score is positive
NormalizeByMax(list) ==
    IF list # <<>> /\ MaxScore(list) > 0
    THEN [i \in DOMAIN list |-> [list[i] EXCEPT !.score = FDiv(@, MaxScore(list))]]
    ELSE list

\* get_trending_entities of the collaborative engine, over the cache contents r:
\* the list returned and the cache afterwards
CollaborativeFilteringEngine_get_trending_entities(r, ctx, entity_type, count, rk) ==
    LET cache_key == "trending:" \o TypeOrAll(entity_type) \o ":" \o ToString(count)
        cached == RedisGet(r, cache_key, "list")
        computed(trending) ==
            [list |-> trending, redis |-> RedisSet(r, cache_key, CachedList(trending))]
    IN  IF cached # <<>> THEN [list |-> cached[1].list, redis |-> r]
        ELSE computed(NormalizeByMax(
                          VectorStore_get_trending_entity_stats(ctx, entity_type, count, rk)))

\* The trending entities appended to a list that is shorter than count
RECURSIVE Supplement(_, _, _, _)
Supplement(list, trending, existing_ids, count) ==
    IF trending = <<>> THEN list
    ELSE IF Head(trending).entity_id \notin existing_ids /\ Len(list) < count
         THEN Supplement(Append(list, Head(trending)), Tail(trending), existing_ids, count)
         ELSE Supplement(list, Tail(trending), existing_ids, count)

CollaborativeFilteringEngine_get_recommendations_with_cold_start(r, ctx, user_id, count, entity_type, rk) ==
    LET fallback(trending) ==
            [result |-> "Ok", list |-> trending.list, cold_start |-> TRUE,
             redis |-> trending.redis]
        supplemented(list, trending) ==
            [result |-> "Ok", list |-> Supplement(list, trending.list, Ids(list), count),
             cold_start |-> FALSE, redis |-> trending.redis]
        personalised(recommendations) ==
            IF recommendations.result # "Ok"
            THEN [result |-> recommendations.result, list |-> <<>>, cold_start |-> FALSE,
                  redis |-> r]
            ELSE IF Len(recommendations.list) < count
            THEN supplemented(recommendations.list,
                              CollaborativeFilteringEngine_get_trending_entities(
                                  r, ctx, entity_type, count - Len(recommendations.list), rk))
            ELSE [result |-> "Ok", list |-> recommendations.list, cold_start |-> FALSE,
                  redis |-> r]
    IN  IF CollaborativeFilteringEngine_is_cold_start_user(ctx, user_id)
        THEN fallback(CollaborativeFilteringEngine_get_trending_entities(
                          r, ctx, entity_type, count, rk))
        ELSE personalised(CollaborativeFilteringEngine_generate_recommendations(
                              ctx, user_id, count, entity_type, rk))

----------------------------------------------------------------------------
(* ContentBasedFilteringEngine *)

\* ContentBasedConfig::default
similarity_threshold == SCALE \div 2

\* The entities most similar to the anchor, with their similarity as score
ContentBasedFilteringEngine_find_similar_entities(ctx, entity_id, entity_type, count, rk) ==
    LET entity == VectorStore_get_entity(ctx, entity_id, entity_type)
        feature_vector == (CHOOSE e \in entity : TRUE).feature_vector
    IN  IF entity = {} THEN [result |-> "EntityNotFound", list |-> <<>>]
        ELSE IF feature_vector = NoVector THEN [result |-> "VectorError", list |-> <<>>]
        ELSE [result |-> "Ok",
              list |-> VectorStore_find_similar_entities(ctx, feature_vector, entity_type,
                                                         similarity_threshold, count,
                                                         entity_id, rk)]

\* generate_recommendations for an anchor entity, over the cache contents r
ContentBasedFilteringEngine_generate_recommendations(r, ctx, entity_id, entity_type, count, rk) ==
    LET cache_key == "content_rec:" \o ctx \o ":" \o entity_id \o ":" \o entity_type
                         \o ":" \o ToString(count)
        cached == RedisGet(r, cache_key, "list")
        computed(similar) ==
            IF similar.result # "Ok" THEN [result |-> similar.result, list |-> <<>>, redis |-> r]
            ELSE [result |-> "Ok", list |-> similar.list,
                  redis |-> RedisSet(r, cache_key, CachedList(similar.list))]
    IN  IF cached # <<>> THEN [result |-> "Ok", list |-> cached[1].list, redis |-> r]
        ELSE computed(ContentBasedFilteringEngine_find_similar_entities(
                          ctx, entity_id, entity_type, count, rk))

\* generate_user_recommendations: for each of the user's latest 20 interactions
\* whose entity resolves under entity_type, similarity * weight summed per
\* similar entity the user has not interacted with
ContentBasedFilteringEngine_generate_user_recommendations(ctx, user_id, entity_type, count, rk) ==
    LET user_interactions == VectorStore_get_user_interactions(ctx, user_id, 20)
        interacted_set == VectorStore_get_user_interacted_entities(ctx, user_id)
        similar(i) == IF VectorStore_get_entity(ctx, i.entity_id, entity_type) = {} THEN <<>>
                      ELSE ContentBasedFilteringEngine_find_similar_entities(
                               ctx, i.entity_id, entity_type, count * 2, rk).list
        contributions ==
            UNION {{<<i, s>> : s \in {x \in Range(similar(i)) : x.entity_id \notin interacted_set}} :
                      i \in user_interactions}
        ids == {c[2].entity_id : c \in contributions}
        scored == {[entity_id |-> id, entity_type |-> entity_type,
                    score |-> LET mine == {c \in contributions : c[2].entity_id = id}
                              IN  SumOver([c \in mine |-> FMul(c[2].score, c[1].weight)], mine)] :
                      id \in ids}
    IN  IF user_interactions = {} THEN <<>>
        ELSE Truncate(SortDesc(InOrder(scored, rk)), count)

\* The loop of get_cold_start_recommendations over the trending entities: seen
\* grows by each trending entity in turn, scores maps entity ids to sums
RECURSIVE ColdStartScores(_, _, _, _, _, _, _)
ColdStartScores(ctx, entity_type, count, trending, seen_entities, scores, rk) ==
    IF trending = <<>> THEN scores
    ELSE IF Head(trending).entity_id \in seen_entities
    THEN ColdStartScores(ctx, entity_type, count, Tail(trending), seen_entities, scores, rk)
    ELSE LET t == Head(trending)
             seen == seen_entities \cup {t.entity_id}
             add(similar, id) == LET s == CHOOSE x \in similar : x.entity_id = id
                                 IN  FMul(s.score, t.score)
             next(similar) ==
                 [id \in DOMAIN scores \cup {s.entity_id : s \in similar} |->
                     (IF id \in DOMAIN scores THEN scores[id] ELSE 0)
                     + (IF \E s \in similar : s.entity_id = id THEN add(similar, id) ELSE 0)]
         IN  ColdStartScores(
                 ctx, entity_type, count, Tail(trending), seen,
                 next({s \in Range(ContentBasedFilteringEngine_find_similar_entities(
                                       ctx, t.entity_id, entity_type, count * 2, rk).list) :
                          s.entity_id \notin seen}), rk)

ContentBasedFilteringEngine_get_cold_start_recommendations(ctx, entity_type, count, rk) ==
    LET scored(scores) == {[entity_id |-> id, entity_type |-> entity_type,
                            score |-> scores[id]] : id \in DOMAIN scores}
    IN  Truncate(SortDesc(InOrder(
            scored(ColdStartScores(ctx, entity_type, count,
                                   VectorStore_get_trending_entity_stats(ctx, entity_type, 5, rk),
                                   {}, <<>>, rk)), rk)), count)

\* get_recommendations_with_cold_start for an anchor entity
ContentBasedFilteringEngine_get_recommendations_with_cold_start(r, ctx, entity_id, entity_type, count, rk) ==
    LET from(generated) ==
            IF generated.result = "Ok" /\ generated.list # <<>>
            THEN [result |-> "Ok", list |-> generated.list, cold_start |-> FALSE,
                  redis |-> generated.redis]
            ELSE [result |-> "Ok",
                  list |-> ContentBasedFilteringEngine_get_cold_start_recommendations(
                               ctx, entity_type, count, rk),
                  cold_start |-> TRUE, redis |-> generated.redis]
    IN  from(ContentBasedFilteringEngine_generate_recommendations(
                 r, ctx, entity_id, entity_type, count, rk))

----------------------------------------------------------------------------
(* HybridEngine *)

\* The tolerance of HybridConfig::validate and of validate_request
TOLERANCE == SCALE \div 1000

Abs(x) == IF x < 0 THEN -x ELSE x

\* HybridConfig::validate
HybridConfig_validate(cfg) ==
    LET sum == cfg.collaborative_weight + cfg.content_weight
    IN  IF Abs(sum - SCALE) > TOLERANCE THEN "InvalidRequest"
        ELSE IF cfg.collaborative_weight < 0 \/ cfg.content_weight < 0 THEN "InvalidRequest"
        ELSE "Ok"

\* normalize_scores: min-max normalisation; equal scores all become 1.0
HybridEngine_normalize_scores(list) ==
    IF list = <<>> THEN list
    ELSE LET min_score == MinScore(list)
             max_score == MaxScore(list)
         IN  IF Abs(max_score - min_score) < SCALE \div 10000
             THEN [i \in DOMAIN list |-> [list[i] EXCEPT !.score = SCALE]]
             ELSE [i \in DOMAIN list |->
                      [list[i] EXCEPT !.score = FDiv(@ - min_score, max_score - min_score)]]

\* HashMap::get(entity_id).map(|e| e.score).unwrap_or(0.0)
ScoreOr0(list, entity_id) ==
    IF entity_id \in Ids(list)
    THEN list[CHOOSE i \in DOMAIN list : list[i].entity_id = entity_id
                                         /\ \A j \in DOMAIN list :
                                                list[j].entity_id = entity_id => j <= i].score
    ELSE 0

\* combine_scores: the weighted sum of the two normalised scores of every entity
\* in either list, sorted by score; the HashSet yields the ids in the order rk
HybridEngine_combine_scores(collab_results, content_results, collab_weight, content_weight, rk) ==
    LET normalized_collab == HybridEngine_normalize_scores(collab_results)
        normalized_content == HybridEngine_normalize_scores(content_results)
        type_of(list, id) == (CHOOSE e \in Range(list) : e.entity_id = id).entity_type
        all == {[entity_id |-> id,
                 entity_type |-> IF id \in Ids(collab_results)
                                 THEN type_of(collab_results, id)
                                 ELSE type_of(content_results, id),
                 score |-> FMul(ScoreOr0(normalized_collab, id), collab_weight)
                           + FMul(ScoreOr0(normalized_content, id), content_weight)] :
                   id \in Ids(collab_results) \cup Ids(content_results)}
    IN  SortDesc(InOrder(all, rk))

\* The first pass of apply_diversity_filter: the first entity of each new type,
\* while fewer than min_categories types are seen, goes to the front
RECURSIVE DiversityFirstPass(_, _, _, _, _)
DiversityFirstPass(list, seen_types, diverse_results, remaining, min_categories) ==
    IF list = <<>>
    THEN [seen_types |-> seen_types, diverse_results |-> diverse_results,
          remaining |-> remaining]
    ELSE IF Cardinality(seen_types) < min_categories /\ Head(list).entity_type \notin seen_types
    THEN DiversityFirstPass(Tail(list), seen_types \cup {Head(list).entity_type},
                            Append(diverse_results, Head(list)), remaining, min_categories)
    ELSE DiversityFirstPass(Tail(list), seen_types, diverse_results,
                            Append(remaining, Head(list)), min_categories)

\* The second pass: an entity is kept if its type's count is at most the average
\* count of the types seen plus one (type_count <= avg_count + 1.0)
RECURSIVE DiversitySecondPass(_, _, _)
DiversitySecondPass(remaining, counts, diverse_results) ==
    IF remaining = <<>> THEN diverse_results
    ELSE LET entity == Head(remaining)
             type_count == IF entity.entity_type \in DOMAIN counts
                           THEN counts[entity.entity_type] ELSE 0
             n == Cardinality(DOMAIN counts)
             total == SumOver(counts, DOMAIN counts)
         IN  IF n = 0 \/ type_count * n <= total + n
             THEN DiversitySecondPass(
                      Tail(remaining),
                      [t \in DOMAIN counts \cup {entity.entity_type} |->
                          IF t = entity.entity_type THEN type_count + 1 ELSE counts[t]],
                      Append(diverse_results, entity))
             ELSE DiversitySecondPass(Tail(remaining), counts, diverse_results)

HybridEngine_apply_diversity_filter(recommendations, min_categories) ==
    IF recommendations = <<>> \/ min_categories = 0 THEN recommendations
    ELSE LET second(first) == DiversitySecondPass(first.remaining,
                                                  [t \in first.seen_types |-> 1],
                                                  first.diverse_results)
         IN  second(DiversityFirstPass(SortDesc(recommendations), {}, <<>>, <<>>,
                                       min_categories))

\* generate_recommendations from combine_scores on
HybridEngine_rank(cfg, collab_recommendations, content_recommendations, count, rk) ==
    LET final_recommendations(scored) ==
            IF cfg.enable_diversity
            THEN HybridEngine_apply_diversity_filter(scored, cfg.min_categories)
            ELSE scored
    IN  Truncate(SortDesc(final_recommendations(
            HybridEngine_combine_scores(collab_recommendations, content_recommendations,
                                        cfg.collaborative_weight, cfg.content_weight, rk))),
                 count)

\* A faulty variant of the result handling: a failed content sub-task fails the call
HybridEngine_handle_results_ContentFails(r, cfg, cache_key, collab, content, count, rk) ==
    IF collab.result # "Ok" THEN [result |-> collab.result, list |-> <<>>, redis |-> r]
    ELSE IF content.result # "Ok" THEN [result |-> content.result, list |-> <<>>, redis |-> r]
    ELSE [result |-> "Ok", list |-> Truncate(collab.list, count), redis |-> collab.redis]

\* generate_recommendations from "Handle results" on: collab_result? fails the
\* call, content_result.unwrap_or_else(Vec::new) does not; the list is stored
\* under cache_key unless the trending list is returned as it is
HybridEngine_handle_results(r, cfg, cache_key, collab, content, count, rk) ==
    LET content_recommendations == IF content.result = "Ok" THEN content.list ELSE <<>>
        ranked(sorted_recommendations) ==
            [result |-> "Ok", list |-> sorted_recommendations,
             redis |-> RedisSet(collab.redis, cache_key, CachedList(sorted_recommendations))]
    IN  IF collab.result # "Ok" THEN [result |-> collab.result, list |-> <<>>, redis |-> r]
        ELSE IF collab.cold_start /\ content_recommendations = <<>>
        THEN [result |-> "Ok", list |-> Truncate(collab.list, count), redis |-> collab.redis]
        ELSE ranked(HybridEngine_rank(cfg, collab.list, content_recommendations, count, rk))

\* hybrid_rec:{tenant}:{user}:{type|all}:{count}
HybridCacheKey(ctx, user_id, entity_type, count) ==
    "hybrid_rec:" \o ctx \o ":" \o user_id \o ":" \o TypeOrAll(entity_type)
        \o ":" \o ToString(count)

\* generate_recommendations for a user, over the cache contents r
HybridEngine_generate_recommendations(r, cfg, ctx, user_id, entity_type, count, rk) ==
    LET cache_key == HybridCacheKey(ctx, user_id, entity_type, count)
        cached == RedisGet(r, cache_key, "list")
        joined(collab, content_recommendations) ==
            HybridEngine_handle_results(r, cfg, cache_key, collab,
                                        [result |-> "Ok", list |-> content_recommendations],
                                        count, rk)
    IN  IF cached # <<>> THEN [result |-> "Ok", list |-> cached[1].list, redis |-> r]
        ELSE joined(CollaborativeFilteringEngine_get_recommendations_with_cold_start(
                        r, ctx, user_id, count * 2, entity_type, rk),
                    ContentBasedFilteringEngine_generate_user_recommendations(
                        ctx, user_id, IF entity_type = None THEN "product" ELSE entity_type,
                        count * 2, rk))

\* generate_entity_recommendations: the content-based list for the anchor
HybridEngine_generate_entity_recommendations(r, ctx, entity_id, entity_type, count, rk) ==
    ContentBasedFilteringEngine_generate_recommendations(r, ctx, entity_id, entity_type, count, rk)

----------------------------------------------------------------------------
(* EntityService and InteractionService: bulk imports *)

\* bulk_import_entities: one batch, inserted whole or not at all
BulkImportEntities(ctx, batch) ==
    /\ entities' = VectorStore_batch_insert_entities(
                       ctx, {[entity_id |-> b.entity_id, entity_type |-> b.entity_type,
                              attributes |-> b.attributes,
                              feature_vector |-> compute_feature_vector(b.attributes)] :
                                 b \in batch}).table
    /\ updated_at' = StampedAt(updated_at, entities', {}, clock)
    /\ UNCHANGED <<interactions, user_profiles, interaction_types, cacheVars, profile_tasks,
                   entityProcVars, interactionProcVars, last_read, requestVars, scoreVars,
                   runtimeVars>>

\* bulk_import_interactions: the weights are the in-memory ones, rows already
\* present are skipped, and no profile update is spawned
BulkImportInteractions(ctx, batch) ==
    /\ interactions' = VectorStore_bulk_import_interactions(
                           ctx, {[user_id |-> b.user_id, entity_id |-> b.entity_id,
                                  entity_type |-> b.entity_type,
                                  interaction_type |-> b.interaction_type,
                                  weight |-> default_weight(b.interaction_type),
                                  metadata |-> None, timestamp |-> b.timestamp] : b \in batch})
    /\ UNCHANGED <<entities, updated_at, user_profiles, interaction_types, cacheVars, profile_tasks,
                   entityProcVars, interactionProcVars, last_read, requestVars, scoreVars,
                   runtimeVars>>

----------------------------------------------------------------------------
(* RecommendationService *)

\* The number of requests the model issues
MaxRequests == 2

\* Every order a HashMap, a HashSet or rows of equal rank can come in
Rankings == {<<"e1", "e2", "e3", "b1">>, <<"b1", "e3", "e2", "e1">>}

\* enum Algorithm; the weights are those of Hybrid
Collaborative == [name |-> "Collaborative", collaborative_weight |-> 0, content_weight |-> 0]
ContentBased == [name |-> "ContentBased", collaborative_weight |-> 0, content_weight |-> 0]
Hybrid(collaborative_weight, content_weight) ==
    [name |-> "Hybrid", collaborative_weight |-> collaborative_weight,
     content_weight |-> content_weight]
NoAlgorithm == [name |-> None, collaborative_weight |-> 0, content_weight |-> 0]

\* format!("{:?}", algorithm)
AlgorithmDebug(algorithm) ==
    IF algorithm.name = "Hybrid"
    THEN "Hybrid { collaborative_weight: " \o ToString(algorithm.collaborative_weight)
             \o ", content_weight: " \o ToString(algorithm.content_weight) \o " }"
    ELSE algorithm.name

\* as_deref().unwrap_or("")
OrEmpty(s) == IF s = None THEN "" ELSE s

\* The key of both cache tiers: rec:{tenant}:{user}:{entity}:{algorithm:?}:{count}
RecCacheKey(ctx, request) ==
    "rec:" \o ctx \o ":" \o OrEmpty(request.user_id) \o ":" \o OrEmpty(request.entity_id)
        \o ":" \o AlgorithmDebug(request.algorithm) \o ":" \o ToString(request.count)

\* validate_request with the upper bound of count off by one
RecommendationService_validate_request_CountBelow100(one, request) ==
    IF request.user_id = None /\ request.entity_id = None THEN "InvalidRequest"
    ELSE IF request.count = 0 THEN "InvalidRequest"
    ELSE IF request.count >= 100 THEN "InvalidRequest"
    ELSE IF request.algorithm.name = "Hybrid"
    THEN LET sum == request.algorithm.collaborative_weight + request.algorithm.content_weight
         IN  IF Abs(sum - one) > one \div 1000 THEN "InvalidRequest"
             ELSE IF request.algorithm.collaborative_weight < 0
                     \/ request.algorithm.content_weight < 0 THEN "InvalidRequest"
             ELSE "Ok"
    ELSE "Ok"

\* validate_request over weights given in units of 1/one
RecommendationService_validate_request_in(one, request) ==
    IF request.user_id = None /\ request.entity_id = None THEN "InvalidRequest"
    ELSE IF request.count = 0 THEN "InvalidRequest"
    ELSE IF request.count > 100 THEN "InvalidRequest"
    ELSE IF request.algorithm.name = "Hybrid"
    THEN LET sum == request.algorithm.collaborative_weight + request.algorithm.content_weight
         IN  IF Abs(sum - one) > one \div 1000 THEN "InvalidRequest"
             ELSE IF request.algorithm.collaborative_weight < 0
                     \/ request.algorithm.content_weight < 0 THEN "InvalidRequest"
             ELSE "Ok"
    ELSE "Ok"

RecommendationService_validate_request(request) ==
    RecommendationService_validate_request_in(SCALE, request)

\* The response of a failed call
ErrResponse(result) ==
    [result |-> result, recommendations |-> <<>>, algorithm |-> None, cold_start |-> FALSE,
     source |-> "error", flag_pending |-> FALSE, matches_trending |-> FALSE,
     interaction_count |-> 0]

\* The routing of get_recommendations: the handler of the algorithm, over the
\* cache contents r.  flag_pending: the handler asks is_cold_start_user afterwards.
RecommendationService_route(r, cfg, q, rk) ==
    LET fail == [result |-> "InvalidRequest", list |-> <<>>, cold_start |-> FALSE,
                 redis |-> r, flag_pending |-> FALSE]
        \* the engine's answer with the flag it carries
        flagged(out) == [result |-> out.result, list |-> out.list,
                         cold_start |-> out.cold_start, redis |-> out.redis,
                         flag_pending |-> FALSE]
        \* the engine's list; the handler sets the flag itself
        listed(out, flag_pending) ==
            [result |-> out.result, list |-> out.list, cold_start |-> FALSE,
             redis |-> out.redis, flag_pending |-> flag_pending]
    IN  CASE q.algorithm.name = "Collaborative" ->
                IF q.user_id = None THEN fail
                ELSE flagged(CollaborativeFilteringEngine_get_recommendations_with_cold_start(
                                 r, q.ctx, q.user_id, q.count, q.entity_type, rk))
          [] q.algorithm.name = "ContentBased" ->
                IF q.entity_id # None
                THEN IF q.entity_type = None THEN fail
                     ELSE flagged(ContentBasedFilteringEngine_get_recommendations_with_cold_start(
                                      r, q.ctx, q.entity_id, q.entity_type, q.count, rk))
                ELSE [result |-> "Ok",
                      list |-> ContentBasedFilteringEngine_generate_user_recommendations(
                                   q.ctx, q.user_id,
                                   IF q.entity_type = None THEN "product" ELSE q.entity_type,
                                   q.count, rk),
                      cold_start |-> FALSE, redis |-> r, flag_pending |-> TRUE]
          [] q.algorithm.name = "Hybrid" ->
                IF q.user_id # None
                THEN listed(HybridEngine_generate_recommendations(
                                r, cfg, q.ctx, q.user_id, q.entity_type, q.count, rk), TRUE)
                ELSE IF q.entity_type = None THEN fail
                ELSE listed(HybridEngine_generate_entity_recommendations(
                                r, q.ctx, q.entity_id, q.entity_type, q.count, rk), FALSE)

\* The algorithm name of a response
AlgorithmName(algorithm) ==
    CASE algorithm.name = "Collaborative" -> "collaborative"
      [] algorithm.name = "ContentBased" -> "content_based"
      [] algorithm.name = "Hybrid" -> "hybrid"

\* Whether a list is the tenant's own trending list, computed from the tenant's
\* rows now, cut to count, in some order of the ties
MatchesTrending(ctx, entity_type, count, list) ==
    \E rk \in Rankings :
        list = Truncate(NormalizeByMax(
                            VectorStore_get_trending_entity_stats(ctx, entity_type, count, rk)),
                        count)

\* get_recommendations up to the two cache lookups.  A hit in the in-process
\* cache or in Redis answers the call; a miss in both leaves it to the engines.
\* The request keeps what the user had interacted with when the call was made
\* and which calls for the same key were computing then; the response keeps how
\* many interactions the user had when it was produced and whether its list is
\* the tenant's trending list of that moment.
GetRecommendationsBegin(p, ctx, request) ==
    /\ pc[p] = "idle"
    /\ started < MaxRequests
    /\ started' = started + 1
    /\ LET cache_key == RecCacheKey(ctx, request)
           l1 == IF cache_key \in DOMAIN request_cache THEN <<request_cache[cache_key]>>
                 ELSE <<>>
           l2 == RedisGet(redis, cache_key, "response")
           answer(cached, source) ==
               [result |-> "Ok", recommendations |-> cached.list,
                algorithm |-> cached.algorithm, cold_start |-> cached.cold_start,
                source |-> source, flag_pending |-> FALSE,
                matches_trending |-> MatchesTrending(ctx, request.entity_type, request.count,
                                                     cached.list),
                interaction_count |-> VectorStore_get_user_interaction_count(
                                          ctx, request.user_id)]
       IN  /\ req' = [req EXCEPT ![p] =
                        [op |-> "get_recommendations", ctx |-> ctx, user_id |-> request.user_id,
                         entity_id |-> request.entity_id, algorithm |-> request.algorithm,
                         count |-> request.count, entity_type |-> request.entity_type,
                         cache_key |-> cache_key,
                         interacted |-> VectorStore_get_user_interacted_entities(
                                            ctx, request.user_id),
                         interaction_count |-> VectorStore_get_user_interaction_count(
                                                   ctx, request.user_id),
                         overlap |-> {q \in RequestProcs \ {p} :
                                         /\ pc[q] \in {"engine", "finish"}
                                         /\ req[q].cache_key = cache_key}]]
           /\ IF RecommendationService_validate_request(request) # "Ok"
              THEN /\ pc' = [pc EXCEPT ![p] = "done"]
                   /\ resp' = [resp EXCEPT ![p] = ErrResponse("InvalidRequest")]
                   /\ request_cache' = request_cache
              ELSE IF l1 # <<>>
              THEN /\ pc' = [pc EXCEPT ![p] = "done"]
                   /\ resp' = [resp EXCEPT ![p] = answer(l1[1], "l1")]
                   /\ request_cache' = request_cache
              ELSE IF l2 # <<>>
              THEN /\ pc' = [pc EXCEPT ![p] = "done"]
                   /\ resp' = [resp EXCEPT ![p] = answer(l2[1], "l2")]
                   /\ request_cache' = RequestCache_insert(request_cache, cache_key, l2[1])
              ELSE /\ pc' = [pc EXCEPT ![p] = "engine"]
                   /\ resp' = resp
                   /\ request_cache' = request_cache
    /\ UNCHANGED <<dbVars, redis, profile_tasks, entityProcVars, interactionProcVars,
                   last_read, scoreVars, runtimeVars>>

\* get_recommendations: the handler of the algorithm runs the engines
GetRecommendationsEngine(p, rk) ==
    /\ pc[p] = "engine"
    /\ LET routed(out) ==
               /\ redis' = out.redis
               /\ IF out.result # "Ok"
                  THEN /\ pc' = [pc EXCEPT ![p] = "done"]
                       /\ resp' = [resp EXCEPT ![p] = ErrResponse(out.result)]
                  ELSE /\ pc' = [pc EXCEPT ![p] = "finish"]
                       /\ resp' = [resp EXCEPT ![p] =
                                     [result |-> "Ok", recommendations |-> out.list,
                                      algorithm |-> AlgorithmName(req[p].algorithm),
                                      cold_start |-> out.cold_start, source |-> "engine",
                                      flag_pending |-> out.flag_pending,
                                      matches_trending |-> FALSE,
                                      interaction_count |-> 0]]
       IN  routed(RecommendationService_route(redis, config, req[p], rk))
    /\ UNCHANGED <<dbVars, request_cache, profile_tasks, entityProcVars, interactionProcVars,
                   last_read, req, started, scoreVars, runtimeVars>>

\* get_recommendations from the handler's is_cold_start_user on: the response is
\* built and stored in both cache tiers
GetRecommendationsFinish(p) ==
    /\ pc[p] = "finish"
    /\ LET q == req[p]
           cold_start == IF resp[p].flag_pending
                         THEN CollaborativeFilteringEngine_is_cold_start_user(q.ctx, q.user_id)
                         ELSE resp[p].cold_start
           response == [kind |-> "response", list |-> resp[p].recommendations,
                        cold_start |-> cold_start, algorithm |-> resp[p].algorithm]
       IN  /\ resp' = [resp EXCEPT ![p] =
                         [@ EXCEPT !.cold_start = cold_start, !.flag_pending = FALSE,
                                   !.matches_trending =
                                       MatchesTrending(q.ctx, q.entity_type, q.count,
                                                       resp[p].recommendations),
                                   !.interaction_count =
                                       VectorStore_get_user_interaction_count(
                                           q.ctx, q.user_id)]]
           /\ request_cache' = RequestCache_insert(request_cache, q.cache_key, response)
           /\ redis' = RedisSet(redis, q.cache_key, response)
    /\ pc' = [pc EXCEPT ![p] = "done"]
    /\ UNCHANGED <<dbVars, profile_tasks, entityProcVars, interactionProcVars, last_read,
                   req, started, scoreVars, runtimeVars>>

\* The caller takes the response
GetRecommendationsReturn(p) ==
    /\ pc[p] = "done"
    /\ pc' = [pc EXCEPT ![p] = "idle"]
    /\ req' = [req EXCEPT ![p] = None]
    /\ resp' = [resp EXCEPT ![p] = None]
    /\ UNCHANGED <<dbVars, cacheVars, profile_tasks, entityProcVars, interactionProcVars,
                   last_read, started, scoreVars, runtimeVars>>

\* get_trending_entities of the service: the tenant's trending list, cached
\* under trending:{tenant}:{type|all}:{count}
GetTrendingEntities(p, ctx, entity_type, count, rk) ==
    /\ pc[p] = "idle"
    /\ started < MaxRequests
    /\ started' = started + 1
    /\ LET cache_key == "trending:" \o ctx \o ":" \o TypeOrAll(entity_type) \o ":"
                            \o ToString(count)
           cached == RedisGet(redis, cache_key, "list")
           trending == NormalizeByMax(
                           VectorStore_get_trending_entity_stats(ctx, entity_type, count, rk))
           answer(list, source) ==
               [result |-> "Ok", recommendations |-> list, algorithm |-> None,
                cold_start |-> FALSE, source |-> source, flag_pending |-> FALSE,
                matches_trending |-> MatchesTrending(ctx, entity_type, count, list),
                interaction_count |-> 0]
       IN  /\ req' = [req EXCEPT ![p] =
                        [op |-> "get_trending_entities", ctx |-> ctx, user_id |-> None,
                         entity_id |-> None, algorithm |-> NoAlgorithm, count |-> count,
                         entity_type |-> entity_type, cache_key |-> cache_key,
                         interacted |-> {}, interaction_count |-> 0, overlap |-> {}]]
           /\ IF count = 0 \/ count > 100
              THEN resp' = [resp EXCEPT ![p] = ErrResponse("InvalidRequest")] /\ redis' = redis
              ELSE IF cached # <<>>
              THEN resp' = [resp EXCEPT ![p] = answer(cached[1].list, "l2")] /\ redis' = redis
              ELSE /\ resp' = [resp EXCEPT ![p] = answer(trending, "engine")]
                   /\ redis' = RedisSet(redis, cache_key, CachedList(trending))
    /\ pc' = [pc EXCEPT ![p] = "done"]
    /\ UNCHANGED <<dbVars, request_cache, profile_tasks, entityProcVars, interactionProcVars,
                   last_read, scoreVars, runtimeVars>>

----------------------------------------------------------------------------
(* Spec: one caller of the recommendation service while a tenant's data changes *)

\* Tenant A's catalogue
CatalogA == {[entity_id |-> "e1", entity_type |-> "product", attributes |-> "attrs1"],
             [entity_id |-> "e2", entity_type |-> "product", attributes |-> "attrs2"],
             [entity_id |-> "e3", entity_type |-> "product", attributes |-> "attrs3"]}

\* Tenant A's imported history: four interactions of u1
HistoryA ==
    {[user_id |-> "u1", entity_id |-> "e1", entity_type |-> "product",
      interaction_type |-> "view", timestamp |-> Now - 1],
     [user_id |-> "u1", entity_id |-> "e1", entity_type |-> "product",
      interaction_type |-> "view", timestamp |-> Now - 2],
     [user_id |-> "u1", entity_id |-> "e1", entity_type |-> "product",
      interaction_type |-> "purchase", timestamp |-> Now - 1],
     [user_id |-> "u1", entity_id |-> "e2", entity_type |-> "product",
      interaction_type |-> "view", timestamp |-> Now - 1]}

\* Tenant B, which has no catalogue: three view interactions of its user u1
HistoryB ==
    {[user_id |-> "u1", entity_id |-> "b1", entity_type |-> "product",
      interaction_type |-> "view", timestamp |-> Now - d] : d \in 1..3}

\* The interactions recorded one by one: u1's fifth, and one of its neighbour u2
RecordInputs == {[user_id |-> "u1", entity_id |-> "e2", interaction_type |-> "view"],
                 [user_id |-> "u2", entity_id |-> "e3", interaction_type |-> "purchase"]}

DefaultHybrid == Hybrid(HybridConfigDefault.collaborative_weight,
                        HybridConfigDefault.content_weight)

RequestInputs ==
    {[ctx |-> "A", user_id |-> "u1", entity_id |-> None, algorithm |-> Collaborative,
      count |-> 2, entity_type |-> "product"],
     [ctx |-> "A", user_id |-> "u1", entity_id |-> None, algorithm |-> DefaultHybrid,
      count |-> 1, entity_type |-> "product"],
     [ctx |-> "A", user_id |-> "u1", entity_id |-> None, algorithm |-> ContentBased,
      count |-> 2, entity_type |-> None],
     [ctx |-> "A", user_id |-> None, entity_id |-> "e1", algorithm |-> ContentBased,
      count |-> 2, entity_type |-> "product"]}

Next ==
    \/ BulkImportEntities("A", CatalogA)
    \/ BulkImportInteractions("A", HistoryA)
    \/ \E i \in RecordInputs :
           RecordInteractionBegin("w1", "A", i.user_id, i.entity_id, "product",
                                  i.interaction_type, None, <<>>)
    \/ RecordInteractionApply("w1")
    \/ \E user_id \in {"u1", "u2"} : ProfileRefresh("A", user_id)
    \/ \E request \in RequestInputs : GetRecommendationsBegin("p1", request.ctx, request)
    \/ \E rk \in Rankings : GetRecommendationsEngine("p1", rk)
    \/ GetRecommendationsFinish("p1")
    \/ GetRecommendationsReturn("p1")
    \/ \E rk \in Rankings : GetTrendingEntities("p1", "A", "product", 1, rk)

Spec == Init /\ [][Next]_vars

----------------------------------------------------------------------------
(* SpecTenants: one caller serves two tenants over the one Redis cache *)

TenantRequestInputs ==
    {[ctx |-> "A", user_id |-> "u1", entity_id |-> None, algorithm |-> Collaborative,
      count |-> 2, entity_type |-> "product"],
     [ctx |-> "A", user_id |-> "u1", entity_id |-> None, algorithm |-> DefaultHybrid,
      count |-> 1, entity_type |-> "product"],
     [ctx |-> "B", user_id |-> "u1", entity_id |-> None, algorithm |-> DefaultHybrid,
      count |-> 1, entity_type |-> "product"],
     [ctx |-> "B", user_id |-> "u1", entity_id |-> None, algorithm |-> Collaborative,
      count |-> 2, entity_type |-> "product"]}

NextTenants ==
    \/ BulkImportEntities("A", CatalogA)
    \/ BulkImportInteractions("A", HistoryA)
    \/ BulkImportInteractions("B", HistoryB)
    \/ \E request \in TenantRequestInputs :
           GetRecommendationsBegin("p1", request.ctx, request)
    \/ \E rk \in Rankings : GetRecommendationsEngine("p1", rk)
    \/ GetRecommendationsFinish("p1")
    \/ GetRecommendationsReturn("p1")
    \/ \E ctx \in Tenants, rk \in Rankings : GetTrendingEntities("p1", ctx, "product", 1, rk)

SpecTenants == Init /\ [][NextTenants]_vars

----------------------------------------------------------------------------
(* SpecCoalesce: two callers issue the same request *)

CoalesceRequest == [ctx |-> "A", user_id |-> "u1", entity_id |-> None,
                    algorithm |-> Collaborative, count |-> 2, entity_type |-> "product"]

NextCoalesce ==
    \/ BulkImportEntities("A", CatalogA)
    \/ BulkImportInteractions("A", HistoryA)
    \/ \E p \in RequestProcs : GetRecommendationsBegin(p, CoalesceRequest.ctx, CoalesceRequest)
    \/ \E p \in RequestProcs, rk \in Rankings : GetRecommendationsEngine(p, rk)
    \/ \E p \in RequestProcs : GetRecommendationsFinish(p)
    \/ \E p \in RequestProcs : GetRecommendationsReturn(p)

SpecCoalesce == Init /\ [][NextCoalesce]_vars

----------------------------------------------------------------------------
(* SpecScore: the hybrid ranking over every accepted configuration *)

\* The longest sub-list drawn
MaxListLen == 2

WeightChoices == {-1000, 0, 3000, 4000, 4005, 6000, 7000, 10000, 11000}
ScoreChoices == {0, SCALE \div 2, 2 * SCALE}
ScoreIds == {"e1", "e2"}

ScoredEntities == [entity_id : ScoreIds, entity_type : {"product"}, score : ScoreChoices]

\* The lists of at most MaxListLen entities with distinct ids
ScoredLists ==
    {s \in UNION {[1..n -> ScoredEntities] : n \in 0..MaxListLen} :
        \A i, j \in DOMAIN s : s[i].entity_id = s[j].entity_id => i = j}

\* HybridEngine::new: only a configuration that validate accepts makes an engine
InitScore ==
    /\ InitTables /\ InitCaches /\ InitCallers /\ InitRuntime
    /\ config \in {cfg \in [collaborative_weight : WeightChoices, content_weight : WeightChoices,
                            enable_diversity : BOOLEAN, min_categories : {3}] :
                      HybridConfig_validate(cfg) = "Ok"}
    /\ collab_in \in ScoredLists
    /\ content_in \in ScoredLists
    /\ combined = <<>>

\* generate_recommendations from combine_scores on, over the two sub-lists
CombineScores(count, rk) ==
    /\ combined' = HybridEngine_rank(config, collab_in, content_in, count, rk)
    /\ UNCHANGED <<dbVars, cacheVars, profile_tasks, entityProcVars, interactionProcVars,
                   last_read, requestVars, config, collab_in, content_in, runtimeVars>>

NextScore == \E count \in 1..2, rk \in Rankings : CombineScores(count, rk)

SpecScore == InitScore /\ [][NextScore]_vars

----------------------------------------------------------------------------
(* VectorStore and EntityService: update_entity and delete_entity *)

\* A faulty variant of update_entity: the row is written whether or not it exists
VectorStore_update_entity_Upsert(ctx, entity_id, entity_type, attributes, feature_vector) ==
    LET row == [tenant_id |-> ctx, entity_id |-> entity_id, entity_type |-> entity_type,
                attributes |-> attributes, feature_vector |-> feature_vector]
    IN  [result |-> "Ok",
         table |-> {e \in entities : EntityKey(e) # EntityKey(row)} \cup {row}]

\* UPDATE entities SET attributes, feature_vector WHERE tenant_id, entity_id,
\* entity_type RETURNING ...: no row returned is EntityNotFound
VectorStore_update_entity(ctx, entity_id, entity_type, attributes, feature_vector) ==
    LET hit == {e \in entities : EntityKey(e) = <<ctx, entity_id, entity_type>>}
    IN  IF hit = {} THEN [result |-> "EntityNotFound", table |-> entities]
        ELSE [result |-> "Ok",
              table |-> (entities \ hit)
                        \cup {[e EXCEPT !.attributes = attributes,
                                        !.feature_vector = feature_vector] : e \in hit}]

\* DELETE FROM entities WHERE tenant_id, entity_id, entity_type:
\* rows_affected = 0 is EntityNotFound
VectorStore_delete_entity(ctx, entity_id, entity_type) ==
    LET hit == {e \in entities : EntityKey(e) = <<ctx, entity_id, entity_type>>}
    IN  IF hit = {} THEN [result |-> "EntityNotFound", table |-> entities]
        ELSE [result |-> "Ok", table |-> entities \ hit]

\* update_entity up to its existence check
UpdateEntityCheck(p, ctx, entity_id, entity_type, attributes) ==
    /\ epc[p] = "idle"
    /\ ereq' = [ereq EXCEPT ![p] = [ctx |-> ctx, entity_id |-> entity_id,
                                    entity_type |-> entity_type, attributes |-> attributes]]
    /\ IF VectorStore_get_entity(ctx, entity_id, entity_type) = {}
       THEN /\ epc' = [epc EXCEPT ![p] = "done"]
            /\ eres' = [eres EXCEPT ![p] = [result |-> "EntityNotFound",
                                            at |-> "update_check", before |-> {},
                                            after |-> {}, changed |-> FALSE]]
       ELSE /\ epc' = [epc EXCEPT ![p] = "update"]
            /\ eres' = eres
    /\ UNCHANGED <<dbVars, cacheVars, profile_tasks, interactionProcVars, last_read,
                   requestVars, scoreVars, runtimeVars>>

\* update_entity from compute_feature_vector on: the UPDATE
UpdateEntityWrite(p) ==
    /\ epc[p] = "update"
    /\ LET r == ereq[p]
           out == VectorStore_update_entity(r.ctx, r.entity_id, r.entity_type, r.attributes,
                                            compute_feature_vector(r.attributes))
       IN  /\ entities' = out.table
           /\ updated_at' = StampedAt(updated_at, out.table,
                                      IF out.result = "Ok"
                                      THEN {<<r.ctx, r.entity_id, r.entity_type>>} ELSE {},
                                      clock)
           /\ eres' = [eres EXCEPT ![p] =
                         [result |-> out.result, at |-> "update",
                          before |-> VectorStore_get_entity(r.ctx, r.entity_id, r.entity_type),
                          after |-> {e \in out.table : EntityKey(e) =
                                         <<r.ctx, r.entity_id, r.entity_type>>},
                          changed |-> out.table # entities]]
    /\ epc' = [epc EXCEPT ![p] = "done"]
    /\ UNCHANGED <<ereq, interactions, user_profiles, interaction_types, cacheVars,
                   profile_tasks, interactionProcVars, last_read, requestVars, scoreVars,
                   runtimeVars>>

\* delete_entity: the DELETE, with no check before it
DeleteEntity(p, ctx, entity_id, entity_type) ==
    /\ epc[p] = "idle"
    /\ ereq' = [ereq EXCEPT ![p] = [ctx |-> ctx, entity_id |-> entity_id,
                                    entity_type |-> entity_type, attributes |-> None]]
    /\ LET out == VectorStore_delete_entity(ctx, entity_id, entity_type)
       IN  /\ entities' = out.table
           /\ updated_at' = StampedAt(updated_at, out.table, {}, clock)
           /\ eres' = [eres EXCEPT ![p] =
                         [result |-> out.result, at |-> "delete",
                          before |-> VectorStore_get_entity(ctx, entity_id, entity_type),
                          after |-> {e \in out.table : EntityKey(e) =
                                         <<ctx, entity_id, entity_type>>},
                          changed |-> out.table # entities]]
    /\ epc' = [epc EXCEPT ![p] = "done"]
    /\ UNCHANGED <<interactions, user_profiles, interaction_types, cacheVars,
                   profile_tasks, interactionProcVars, last_read, requestVars, scoreVars,
                   runtimeVars>>

----------------------------------------------------------------------------
(* SpecEntityWrites: concurrent create, update and delete of one entity *)

NextEntityWrites ==
    \/ \E p \in EntityProcs, ctx \in Tenants :
           CreateEntityCheck(p, ctx, "e1", "product", "attrs1")
    \/ \E p \in EntityProcs : CreateEntityInsert(p)
    \/ \E p \in EntityProcs, attributes \in {"attrs2", "attrs3"} :
           UpdateEntityCheck(p, "A", "e1", "product", attributes)
    \/ \E p \in EntityProcs : UpdateEntityWrite(p)
    \/ \E p \in EntityProcs : DeleteEntity(p, "A", "e1", "product")
    \/ \E p \in EntityProcs : CreateEntityReturn(p)

SpecEntityWrites == Init /\ [][NextEntityWrites]_vars

----------------------------------------------------------------------------
(* HybridEngine: the permit of generate_recommendations *)

\* The number of hybrid calls in progress at once
MaxHybridCalls == 102

\* A faulty acquire: it completes whether or not a permit is available
Semaphore_acquire_Unbounded(permits) == [acquired |-> TRUE, permits |-> permits]

\* concurrency_limit.acquire().await: completes by taking one permit when one
\* is available, and is pending otherwise
Semaphore_acquire(permits) ==
    IF permits > 0 THEN [acquired |-> TRUE, permits |-> permits - 1]
    ELSE [acquired |-> FALSE, permits |-> permits]

\* drop(_permit): the permit goes back when the call returns
Semaphore_release(permits) == permits + 1

hybridFrame == <<dbVars, cacheVars, profile_tasks, entityProcVars, interactionProcVars,
                 last_read, requestVars, scoreVars, lifecycleVars, validationVars, updaterVars, environmentVars, backgroundVars,
                 webhookVars, directCallVars>>

\* A caller enters generate_recommendations and awaits the permit
HybridCall ==
    /\ hybrid_calls.waiting + hybrid_calls.lookup + hybrid_calls.engines < MaxHybridCalls
    /\ hybrid_calls' = [hybrid_calls EXCEPT !.waiting = @ + 1]
    /\ UNCHANGED <<concurrency_limit, hybrid_run, hybridFrame>>

\* The acquire of a waiting caller completes
HybridAcquire ==
    /\ hybrid_calls.waiting > 0
    /\ Semaphore_acquire(concurrency_limit).acquired
    /\ concurrency_limit' = Semaphore_acquire(concurrency_limit).permits
    /\ hybrid_calls' = [hybrid_calls EXCEPT !.waiting = @ - 1, !.lookup = @ + 1]
    /\ UNCHANGED <<hybrid_run, hybridFrame>>

\* The cache lookup of a caller that holds a permit: a hit returns, a miss
\* starts the two engine sub-tasks
HybridLookup(hit) ==
    /\ hybrid_calls.lookup > 0
    /\ IF hit
       THEN /\ hybrid_calls' = [hybrid_calls EXCEPT !.lookup = @ - 1]
            /\ concurrency_limit' = Semaphore_release(concurrency_limit)
       ELSE /\ hybrid_calls' = [hybrid_calls EXCEPT !.lookup = @ - 1, !.engines = @ + 1]
            /\ concurrency_limit' = concurrency_limit
    /\ UNCHANGED <<hybrid_run, hybridFrame>>

\* A call whose sub-tasks ran returns, with a list or with an error
HybridReturn ==
    /\ hybrid_calls.engines > 0
    /\ hybrid_calls' = [hybrid_calls EXCEPT !.engines = @ - 1]
    /\ concurrency_limit' = Semaphore_release(concurrency_limit)
    /\ UNCHANGED <<hybrid_run, hybridFrame>>

NextPermits ==
    \/ HybridCall
    \/ HybridAcquire
    \/ \E hit \in BOOLEAN : HybridLookup(hit)
    \/ HybridReturn

SpecPermits == Init /\ [][NextPermits]_vars

----------------------------------------------------------------------------
(* HybridEngine: one generate_recommendations call and its two sub-tasks *)

\* A sub-task that has not finished, and one that failed on a database error
TaskRunning == [state |-> "running", result |-> None, list |-> <<>>, cold_start |-> FALSE]
TaskFailed == [state |-> "done", result |-> "DatabaseError", list |-> <<>>,
               cold_start |-> FALSE]

hybridRunFrame == <<dbVars, request_cache, profile_tasks, entityProcVars,
                    interactionProcVars, last_read, requestVars, scoreVars,
                    concurrency_limit, hybrid_calls, lifecycleVars, validationVars, updaterVars, environmentVars, backgroundVars,
                    webhookVars, directCallVars>>

\* generate_recommendations up to tokio::join!: a cache hit returns the cached
\* list, a miss starts both sub-tasks
HybridRunStart(ctx, user_id, entity_type, count) ==
    /\ hybrid_run.pc = "idle"
    /\ LET cache_key == HybridCacheKey(ctx, user_id, entity_type, count)
           cached == RedisGet(redis, cache_key, "list")
           call == [ctx |-> ctx, user_id |-> user_id, entity_type |-> entity_type,
                    count |-> count, cache_key |-> cache_key]
       IN  IF cached # <<>>
           THEN hybrid_run' = [pc |-> "done", call |-> call, miss |-> FALSE,
                               collab |-> TaskRunning, content |-> TaskRunning,
                               out |-> [result |-> "Ok", list |-> cached[1].list]]
           ELSE hybrid_run' = [pc |-> "join", call |-> call, miss |-> TRUE,
                               collab |-> TaskRunning, content |-> TaskRunning,
                               out |-> None]
    /\ UNCHANGED <<redis, hybridRunFrame>>

\* The collaborative sub-task runs to its end: the engine's answer, or an error
HybridCollabTask(fail, rk) ==
    /\ hybrid_run.pc = "join" /\ hybrid_run.collab.state = "running"
    /\ LET c == hybrid_run.call
           finished(out) ==
               /\ hybrid_run' = [hybrid_run EXCEPT !.collab =
                                   [state |-> "done", result |-> out.result,
                                    list |-> out.list, cold_start |-> out.cold_start]]
               /\ redis' = out.redis
       IN  IF fail THEN hybrid_run' = [hybrid_run EXCEPT !.collab = TaskFailed]
                        /\ redis' = redis
           ELSE finished(CollaborativeFilteringEngine_get_recommendations_with_cold_start(
                             redis, c.ctx, c.user_id, c.count * 2, c.entity_type, rk))
    /\ UNCHANGED hybridRunFrame

\* The content sub-task runs to its end: the engine's list, or an error
HybridContentTask(fail, rk) ==
    /\ hybrid_run.pc = "join" /\ hybrid_run.content.state = "running"
    /\ LET c == hybrid_run.call
           finished(list) ==
               hybrid_run' = [hybrid_run EXCEPT !.content =
                                 [state |-> "done", result |-> "Ok", list |-> list,
                                  cold_start |-> FALSE]]
       IN  IF fail THEN hybrid_run' = [hybrid_run EXCEPT !.content = TaskFailed]
           ELSE finished(ContentBasedFilteringEngine_generate_user_recommendations(
                             c.ctx, c.user_id,
                             IF c.entity_type = None THEN "product" ELSE c.entity_type,
                             c.count * 2, rk))
    /\ UNCHANGED <<redis, hybridRunFrame>>

\* tokio::join! returns when both sub-tasks have finished; the results are handled
HybridRunJoin(rk) ==
    /\ hybrid_run.pc = "join"
    /\ hybrid_run.collab.state = "done" /\ hybrid_run.content.state = "done"
    /\ LET c == hybrid_run.call
           handled(out) ==
               /\ hybrid_run' = [hybrid_run EXCEPT !.pc = "done",
                                    !.out = [result |-> out.result, list |-> out.list]]
               /\ redis' = out.redis
       IN  handled(HybridEngine_handle_results(
                       redis, config, c.cache_key,
                       [result |-> hybrid_run.collab.result, list |-> hybrid_run.collab.list,
                        cold_start |-> hybrid_run.collab.cold_start, redis |-> redis],
                       hybrid_run.content, c.count, rk))
    /\ UNCHANGED hybridRunFrame

\* The caller takes the result
HybridRunReturn ==
    /\ hybrid_run.pc = "done"
    /\ hybrid_run' = [pc |-> "idle"]
    /\ UNCHANGED <<redis, hybridRunFrame>>

NextHybridRun ==
    \/ BulkImportEntities("A", CatalogA)
    \/ BulkImportInteractions("A", HistoryA)
    \/ RecordInteractionBegin("w1", "A", "u1", "e2", "product", "view", None, <<>>)
    \/ RecordInteractionApply("w1")
    \/ ProfileRefresh("A", "u1")
    \/ \E count \in 1..2 : HybridRunStart("A", "u1", "product", count)
    \/ \E fail \in BOOLEAN, rk \in Rankings : HybridCollabTask(fail, rk)
    \/ \E fail \in BOOLEAN, rk \in Rankings : HybridContentTask(fail, rk)
    \/ \E rk \in Rankings : HybridRunJoin(rk)
    \/ HybridRunReturn

SpecHybridRun == Init /\ [][NextHybridRun]_vars

----------------------------------------------------------------------------
(* Process lifecycle: readiness probe, shutdown signal, graceful shutdown *)

SHUTDOWN_TIMEOUT_SECS == 30
MaxElapsed == 32

lifecycleFrame == <<dbVars, cacheVars, profile_tasks, entityProcVars, interactionProcVars,
                    last_read, requestVars, scoreVars, hybridVars, validationVars,
                    updaterVars, environmentVars, backgroundVars, webhookVars, directCallVars>>

\* readiness_check: the state is not read; the answer is 200 "healthy"
readiness_check(shutting_down) == [status |-> 200, body |-> "healthy"]

\* A recommendation request arrives on connection c; the listener accepts
\* until graceful shutdown starts, after that the connection is refused
HttpRequest(c) ==
    /\ server \in {"serving", "sleeping", "draining"}
    /\ in_flight[c].pc # "running"
    /\ in_flight' = [in_flight EXCEPT ![c] =
                        [pc |-> IF server = "draining" THEN "refused" ELSE "running",
                         at_signal |-> FALSE]]
    /\ UNCHANGED <<is_shutting_down, server, elapsed, ready_probe, lifecycleFrame>>

\* The handler of the request on connection c finishes; the response is sent
HttpRespond(c) ==
    /\ server # "exited"
    /\ in_flight[c].pc = "running"
    /\ in_flight' = [in_flight EXCEPT ![c].pc = "completed"]
    /\ UNCHANGED <<is_shutting_down, server, elapsed, ready_probe, lifecycleFrame>>

\* GET /ready, answered while the listener accepts
ReadinessCheck ==
    /\ server \in {"serving", "sleeping"}
    /\ ready_probe' = [answered |-> TRUE, answer |-> readiness_check(is_shutting_down),
                       shutting_down |-> is_shutting_down, elapsed |-> elapsed]
    /\ UNCHANGED <<is_shutting_down, server, elapsed, in_flight, lifecycleFrame>>

\* shutdown_signal: ctrl_c() completes, set_shutting_down, the sleep starts
ShutdownSignal ==
    /\ server = "serving"
    /\ is_shutting_down' = TRUE
    /\ server' = "sleeping"
    /\ elapsed' = 0
    /\ in_flight' = [c \in Connections |->
                        [in_flight[c] EXCEPT !.at_signal = (in_flight[c].pc = "running")]]
    /\ UNCHANGED <<ready_probe, lifecycleFrame>>

\* One second passes after the signal: while the sleep lasts, and then while
\* the server waits for a request in flight (it exits at once when none is)
Tick ==
    /\ \/ server = "sleeping" /\ elapsed < SHUTDOWN_TIMEOUT_SECS
       \/ server = "draining" /\ \E c \in Connections : in_flight[c].pc = "running"
    /\ elapsed < MaxElapsed
    /\ elapsed' = elapsed + 1
    /\ UNCHANGED <<is_shutting_down, server, in_flight, ready_probe, lifecycleFrame>>

\* sleep(shutdown_timeout_secs) completes, so the shutdown_signal future
\* completes: with_graceful_shutdown stops accepting connections
GracefulShutdownStart ==
    /\ server = "sleeping" /\ elapsed = SHUTDOWN_TIMEOUT_SECS
    /\ server' = "draining"
    /\ UNCHANGED <<is_shutting_down, elapsed, in_flight, ready_probe, lifecycleFrame>>

\* axum::serve returns when no connection has a request in flight; main returns
ServerExit ==
    /\ server = "draining"
    /\ \A c \in Connections : in_flight[c].pc # "running"
    /\ server' = "exited"
    /\ UNCHANGED <<is_shutting_down, elapsed, in_flight, ready_probe, lifecycleFrame>>

NextLifecycle ==
    \/ \E c \in Connections : HttpRequest(c)
    \/ \E c \in Connections : HttpRespond(c)
    \/ ReadinessCheck
    \/ ShutdownSignal
    \/ Tick
    \/ GracefulShutdownStart
    \/ ServerExit

SpecLifecycle == Init /\ [][NextLifecycle]_vars

----------------------------------------------------------------------------
(* Request validation over weights with seven decimal places *)

\* 1.0 as a weight: the unit in which 0.4000001 is a whole number
WEIGHT_ONE == 10000000

CollaborativeWeights == {-1000000, 0, 6000000, 7000000}
ContentWeights == {-1000000, 0, 3989999, 3990000, 4000000, 4000001, 4010000, 4010001,
                   WEIGHT_ONE, 11000000}
ValidationCounts == {0, 1, 100, 101}
ValidationAlgorithms ==
    {Collaborative, ContentBased}
        \cup {Hybrid(collaborative_weight, content_weight) :
                 collaborative_weight \in CollaborativeWeights,
                 content_weight \in ContentWeights}

validationFrame == <<dbVars, cacheVars, profile_tasks, entityProcVars, interactionProcVars,
                     last_read, requestVars, scoreVars, hybridVars, lifecycleVars,
                     updaterVars, environmentVars, backgroundVars, webhookVars, directCallVars>>

\* validate_request is called with a request
ValidateRequest(user_id, entity_id, algorithm, count) ==
    /\ LET request == [user_id |-> user_id, entity_id |-> entity_id,
                       algorithm |-> algorithm, count |-> count]
       IN  validated' = [called |-> TRUE, request |-> request,
                         result |-> RecommendationService_validate_request_in(
                                        WEIGHT_ONE, request)]
    /\ UNCHANGED validationFrame

NextValidation ==
    \E user_id \in {None, "u1"}, entity_id \in {None, "e1"},
       algorithm \in ValidationAlgorithms, count \in ValidationCounts :
        ValidateRequest(user_id, entity_id, algorithm, count)

SpecValidation == Init /\ [][NextValidation]_vars

----------------------------------------------------------------------------
(* WebhookDelivery: one spawned task per event, one delivery per URL *)

\* The retries a WebhookDelivery is built with range over 0..MaxRetries; at
\* most MaxEvents events are emitted
MaxRetries == 3
MaxEvents == 2

\* with_defaults: retry_delay_ms
RetryDelayMs == 1000

\* WebhookEvent::model_updated
WebhookEvent_model_updated(tenant_id, users_updated, entities_updated) ==
    [event_type |-> "model_updated", tenant_id |-> tenant_id, users_updated |-> users_updated,
     entities_updated |-> entities_updated]

\* A faulty backoff: the delay grows by retry_delay_ms per attempt
BackoffDelay_Linear(retry_delay_ms, attempt) == retry_delay_ms * (attempt + 1)

\* let delay_ms = self.retry_delay_ms * 2_u64.pow(attempt)
BackoffDelay(retry_delay_ms, attempt) == retry_delay_ms * 2 ^ attempt

\* The state of dispatch at the head of its loop over the URLs, from the URL
\* with index url on: send_with_retry starts with attempt 0
DispatchFrom(task, url) ==
    [task EXCEPT !.pc = IF url > Len(task.webhook_urls) THEN "done" ELSE "send",
                 !.url = url, !.attempt = 0, !.outcomes = <<>>, !.sleeps = <<>>]

\* The task dispatch_async has spawned and then returned
NewTask(delivery, event) ==
    DispatchFrom([event |-> event, webhook_urls |-> delivery.webhook_urls,
                  max_retries |-> delivery.max_retries,
                  retry_delay_ms |-> delivery.retry_delay_ms,
                  pc |-> "send", url |-> 1, attempt |-> 0, outcomes |-> <<>>,
                  sleeps |-> <<>>, results |-> <<>>], 1)

\* A faulty dispatch_async that awaits dispatch: when it returns, every URL
\* has been given up after its attempts
WebhookDelivery_dispatch_async_Awaited(tasks, delivery, event) ==
    Append(tasks,
           [NewTask(delivery, event) EXCEPT
               !.pc = "done", !.url = Len(delivery.webhook_urls) + 1,
               !.results = [u \in 1..Len(delivery.webhook_urls) |->
                               [url |-> delivery.webhook_urls[u], result |-> "InternalError",
                                outcomes |-> [n \in 1..(delivery.max_retries + 1) |-> FALSE],
                                sleeps |-> [n \in 1..delivery.max_retries |->
                                               BackoffDelay(delivery.retry_delay_ms, n - 1)]]]])

\* dispatch_async: tokio::spawn of dispatch; the JoinHandle is dropped
WebhookDelivery_dispatch_async(tasks, delivery, event) ==
    Append(tasks, NewTask(delivery, event))

\* ModelUpdater::new with Some(WebhookDelivery::new(urls, secret, max_retries, 1000))
ConfigureWebhooks(webhook_urls, max_retries) ==
    /\ ~webhook_delivery.configured
    /\ webhook_delivery' = [configured |-> TRUE, webhook_urls |-> webhook_urls,
                            max_retries |-> max_retries, retry_delay_ms |-> RetryDelayMs]
    /\ UNCHANGED <<dbVars, cacheVars, profile_tasks, entityProcVars, interactionProcVars,
                   last_read, requestVars, scoreVars, hybridVars, lifecycleVars,
                   validationVars, updaterVars, environmentVars, backgroundVars,
                   webhook_tasks, directCallVars>>

\* One pass of the loop of send_with_retry up to its sleep: send_to_url posts
\* the event and the endpoint answers with success (ok) or not (a status that
\* is not 2xx, a transport error, or the client's timeout of 30 s)
WebhookSend(t, ok) ==
    /\ t <= Len(webhook_tasks)
    /\ webhook_tasks[t].pc = "send"
    /\ LET task == webhook_tasks[t]
           outcomes == Append(task.outcomes, ok)
           finished(result) ==
               DispatchFrom([task EXCEPT !.results =
                                Append(@, [url |-> task.webhook_urls[task.url],
                                           result |-> result, outcomes |-> outcomes,
                                           sleeps |-> task.sleeps])],
                            task.url + 1)
       IN  webhook_tasks' =
               [webhook_tasks EXCEPT ![t] =
                   IF ok THEN finished("Ok")
                   ELSE IF task.attempt < task.max_retries
                   THEN [task EXCEPT !.pc = "sleep", !.outcomes = outcomes]
                   ELSE finished("InternalError")]
    /\ UNCHANGED <<dbVars, cacheVars, profile_tasks, entityProcVars, interactionProcVars,
                   last_read, requestVars, scoreVars, hybridVars, lifecycleVars,
                   validationVars, updaterVars, environmentVars, backgroundVars,
                   webhook_delivery, directCallVars>>

\* The sleep of the backoff ends and the loop goes to its next attempt
WebhookSleep(t) ==
    /\ t <= Len(webhook_tasks)
    /\ webhook_tasks[t].pc = "sleep"
    /\ LET task == webhook_tasks[t]
       IN  webhook_tasks' =
               [webhook_tasks EXCEPT ![t] =
                   [task EXCEPT !.pc = "send", !.attempt = @ + 1,
                                !.sleeps = Append(@, BackoffDelay(task.retry_delay_ms,
                                                                  task.attempt))]]
    /\ UNCHANGED <<dbVars, cacheVars, profile_tasks, entityProcVars, interactionProcVars,
                   last_read, requestVars, scoreVars, hybridVars, lifecycleVars,
                   validationVars, updaterVars, environmentVars, backgroundVars,
                   webhook_delivery, directCallVars>>

----------------------------------------------------------------------------
(* ModelUpdater and the deferred profile updates, on a clock of seconds *)

INCREMENTAL_INTERVAL_SECS == 10
PROFILE_UPDATE_DELAY_SECS == 5
MaxClock == 24
MaxRecorded == 2

\* KEYS pattern: the glob match of Redis, for patterns made of text and '*'
RECURSIVE GlobMatch(_, _)
GlobMatch(pattern, key) ==
    IF pattern = "" THEN key = ""
    ELSE IF SubSeq(pattern, 1, 1) = "*"
    THEN \E n \in 0..Len(key) :
             GlobMatch(SubSeq(pattern, 2, Len(pattern)), SubSeq(key, n + 1, Len(key)))
    ELSE /\ key # ""
         /\ SubSeq(key, 1, 1) = SubSeq(pattern, 1, 1)
         /\ GlobMatch(SubSeq(pattern, 2, Len(pattern)), SubSeq(key, 2, Len(key)))

\* delete_pattern: KEYS pattern, then DEL of the keys found
RedisCache_delete_pattern(r, pattern) ==
    LET keys == {k \in DOMAIN r : GlobMatch(pattern, k)}
    IN  [k \in DOMAIN r \ keys |-> r[k]]

\* SELECT DISTINCT user_id FROM interactions WHERE tenant_id = $1
\* AND timestamp > NOW() - INTERVAL '1 second' * $2
VectorStore_get_users_with_recent_interactions(ctx, now, seconds_ago) ==
    {i.user_id : i \in {j \in interactions : /\ j.tenant_id = ctx
                                             /\ j.timestamp > now - seconds_ago}}

\* The row recompute_user_preference_vector upserts
RecomputedProfile(ctx, user_id) ==
    [tenant_id |-> ctx, user_id |-> user_id,
     preference_vector |-> VectorStore_compute_user_preference_vector(ctx, user_id),
     interaction_count |-> VectorStore_get_user_interaction_count(ctx, user_id)]

\* recompute_user_preference_vector succeeds; an empty vector is written as
\* '[]'::vector, which the database accepts or rejects (accepts_empty)
RecomputeSucceeds(ctx, user_id, accepts_empty) ==
    VectorStore_compute_user_preference_vector(ctx, user_id) # NoVector \/ accepts_empty

\* The keys left after delete_pattern("rec:{user_id}:*") for every user of users
RECURSIVE InvalidateUsers(_, _)
InvalidateUsers(r, users) ==
    IF users = {} THEN r
    ELSE LET user_id == CHOOSE u \in users : TRUE
         IN  InvalidateUsers(RedisCache_delete_pattern(r, "rec:" \o user_id \o ":*"),
                             users \ {user_id})

\* update_user_preference_vectors: the users recomputed, the profiles and the
\* cache afterwards
ModelUpdater_update_user_preference_vectors(r, ctx, now, accepts_empty) ==
    LET users_to_update == VectorStore_get_users_with_recent_interactions(
                               ctx, now, INCREMENTAL_INTERVAL_SECS)
        updated == {u \in users_to_update : RecomputeSucceeds(ctx, u, accepts_empty)}
    IN  [updated |-> updated,
         user_profiles |-> {p \in user_profiles :
                               ~(p.tenant_id = ctx /\ p.user_id \in updated)}
                               \cup {RecomputedProfile(ctx, u) : u \in updated},
         redis |-> InvalidateUsers(r, updated)]

\* invalidate_affected_cache
ModelUpdater_invalidate_affected_cache(r, ctx) ==
    RedisCache_delete_pattern(r, "trending:" \o ctx \o ":*")

\* clear_all_caches
ModelUpdater_clear_all_caches(r, ctx) ==
    RedisCache_delete_pattern(r, "*:" \o ctx \o ":*")

\* SELECT DISTINCT user_id FROM user_profiles WHERE tenant_id = $1
VectorStore_get_all_user_ids(ctx) ==
    {p.user_id : p \in {q \in user_profiles : q.tenant_id = ctx}}

updaterFrame == <<entities, interaction_types, request_cache, profile_tasks, entityProcVars,
                  interactionProcVars, last_read, requestVars, scoreVars, hybridVars,
                  lifecycleVars, validationVars, environmentVars,
                  webhook_delivery, directCallVars>>

\* One second passes.  Work that is due is done first: the updater's tick at
\* its instant, a deferred profile update at the end of its sleep
ClockTick ==
    /\ clock < MaxClock
    /\ next_tick > clock
    /\ \A t \in refresh_tasks : t.due > clock
    /\ clock' = clock + 1
    /\ UNCHANGED <<interactions, user_profiles, redis, next_tick, refresh_tasks, last_write,
                   last_update, webhook_tasks, updated_at, backgroundVars, updaterFrame>>

\* record_interaction at the instant clock, with the default weight and
\* timestamp None: the row is upserted and the profile update is spawned
RecordInteractionAt(ctx, user_id, entity_id, entity_type, interaction_type) ==
    /\ Cardinality(DOMAIN last_write) < MaxRecorded \/ <<ctx, user_id>> \in DOMAIN last_write
    /\ Cardinality({i \in interactions : i.tenant_id = ctx /\ i.user_id = user_id})
           < MaxRecorded
    /\ interactions' = VectorStore_record_interaction(
                           ctx, user_id, entity_id, entity_type, interaction_type,
                           VectorStore_get_interaction_weight(ctx, interaction_type), None, clock)
    /\ refresh_tasks' = refresh_tasks
                            \cup {[ctx |-> ctx, user_id |-> user_id,
                                   due |-> clock + PROFILE_UPDATE_DELAY_SECS]}
    /\ last_write' = [u \in DOMAIN last_write \cup {<<ctx, user_id>>} |->
                         IF u = <<ctx, user_id>> THEN clock ELSE last_write[u]]
    /\ UNCHANGED <<user_profiles, redis, clock, next_tick, last_update, webhook_tasks,
                   updated_at, backgroundVars, updaterFrame>>

\* bulk_import_interactions at the instant clock: the rows carry the
\* timestamps of the batch; no profile update is spawned
BulkImportInteractionsAt(ctx, batch) ==
    /\ interactions' = VectorStore_bulk_import_interactions(
                           ctx, {[user_id |-> b.user_id, entity_id |-> b.entity_id,
                                  entity_type |-> b.entity_type,
                                  interaction_type |-> b.interaction_type,
                                  weight |-> default_weight(b.interaction_type),
                                  metadata |-> None, timestamp |-> b.timestamp] : b \in batch})
    /\ last_write' = [u \in DOMAIN last_write \cup {<<ctx, b.user_id>> : b \in batch} |->
                         IF u \in {<<ctx, b.user_id>> : b \in batch} THEN clock
                         ELSE last_write[u]]
    /\ UNCHANGED <<user_profiles, redis, clock, next_tick, refresh_tasks, last_update,
                   webhook_tasks, updated_at, backgroundVars, updaterFrame>>

\* The spawned task after its sleep: update_user_profile_async
ProfileRefreshDue(ctx, user_id, due) ==
    /\ [ctx |-> ctx, user_id |-> user_id, due |-> due] \in refresh_tasks /\ clock >= due
    /\ refresh_tasks' = refresh_tasks \ {[ctx |-> ctx, user_id |-> user_id, due |-> due]}
    /\ LET t == [ctx |-> ctx, user_id |-> user_id]
           preference_vector == VectorStore_compute_user_preference_vector(t.ctx, t.user_id)
       IN  IF preference_vector = NoVector
           THEN user_profiles' = user_profiles
           ELSE user_profiles' = VectorStore_upsert_user_profile(
                                     t.ctx, t.user_id, preference_vector,
                                     VectorStore_get_user_interaction_count(t.ctx, t.user_id))
    /\ UNCHANGED <<interactions, redis, clock, next_tick, last_write, last_update,
                   webhook_tasks, updated_at, backgroundVars, updaterFrame>>

\* How long after the instant of its tick an UPDATE of the updater's entity
\* pass runs, in seconds: NOW() of the UPDATE is in the second of the tick or
\* in the next one
TouchDelays == {0, 1}

\* SELECT entity_id FROM entities WHERE tenant_id = $1
\* AND updated_at > NOW() - INTERVAL '1 second' * $2: the rows selected
VectorStore_get_recently_modified_entities(ctx, now, seconds_ago) ==
    {k \in DOMAIN updated_at : k[1] = ctx /\ updated_at[k] > now - seconds_ago}

\* SELECT entity_id FROM entities WHERE tenant_id = $1: the rows selected
VectorStore_get_all_entity_ids(ctx) ==
    {EntityKey(e) : e \in {x \in entities : x.tenant_id = ctx}}

\* recompute_entity_feature_vector for every id of entity_ids: the entity is
\* found under one of the tenant's types, and UPDATE entities SET updated_at =
\* NOW() WHERE tenant_id = $1 AND entity_id = $2 touches its rows
VectorStore_recompute_entity_feature_vector(stamps, ctx, entity_ids, now) ==
    [k \in DOMAIN stamps |-> IF k[1] = ctx /\ k[2] \in entity_ids THEN now ELSE stamps[k]]

\* update_entity_feature_vectors: the count reported and column updated_at
ModelUpdater_update_entity_feature_vectors(ctx, now, delay) ==
    LET entities_to_update == VectorStore_get_recently_modified_entities(
                                  ctx, now, INCREMENTAL_INTERVAL_SECS)
    IN  [updated |-> Cardinality(entities_to_update),
         updated_at |-> VectorStore_recompute_entity_feature_vector(
                            updated_at, ctx, {k[2] : k \in entities_to_update}, now + delay)]

\* rebuild_all_entity_vectors: the count reported and column updated_at
ModelUpdater_rebuild_all_entity_vectors(ctx, now, delay) ==
    [updated |-> Cardinality(VectorStore_get_all_entity_ids(ctx)),
     updated_at |-> VectorStore_recompute_entity_feature_vector(
                        updated_at, ctx, {k[2] : k \in VectorStore_get_all_entity_ids(ctx)},
                        now + delay)]

\* A tick of start_incremental_updates: incremental_update
IncrementalUpdate(ctx, accepts_empty) ==
    /\ clock = next_tick
    /\ next_tick' = clock + INCREMENTAL_INTERVAL_SECS
    /\ \E delay \in TouchDelays :
           LET done(users, entity_pass) ==
                   /\ user_profiles' = users.user_profiles
                   /\ updated_at' = entity_pass.updated_at
                   /\ redis' = ModelUpdater_invalidate_affected_cache(users.redis, ctx)
                   /\ last_update' = [kind |-> "incremental", ctx |-> ctx,
                                      updated |-> users.updated,
                                      entities_updated |-> entity_pass.updated,
                                      before |-> redis, after |-> redis']
                   /\ IF (Cardinality(users.updated) > 0 \/ entity_pass.updated > 0)
                         /\ webhook_delivery.configured
                      THEN /\ Len(webhook_tasks) < MaxEvents
                           /\ webhook_tasks' = WebhookDelivery_dispatch_async(
                                   webhook_tasks, webhook_delivery,
                                   WebhookEvent_model_updated(
                                       ctx, Cardinality(users.updated), entity_pass.updated))
                      ELSE webhook_tasks' = webhook_tasks
           IN  done(ModelUpdater_update_user_preference_vectors(
                        redis, ctx, clock, accepts_empty),
                    ModelUpdater_update_entity_feature_vectors(ctx, clock, delay))
    /\ UNCHANGED <<interactions, clock, refresh_tasks, last_write, backgroundVars, updaterFrame>>

\* rebuild_all_user_vectors: every user of user_profiles is recomputed
ModelUpdater_rebuild_all_user_vectors(ctx, accepts_empty) ==
    LET updated == {u \in VectorStore_get_all_user_ids(ctx) :
                       RecomputeSucceeds(ctx, u, accepts_empty)}
    IN  {p \in user_profiles : ~(p.tenant_id = ctx /\ p.user_id \in updated)}
            \cup {RecomputedProfile(ctx, u) : u \in updated}

\* full_rebuild, every step of it succeeding: the user vectors and the entity
\* vectors are rebuilt, both indexes dropped and created again, the tenant's
\* caches cleared and the event dispatched
ModelUpdater_full_rebuild(ctx, accepts_empty) ==
    /\ user_profiles' = ModelUpdater_rebuild_all_user_vectors(ctx, accepts_empty)
    /\ redis' = ModelUpdater_clear_all_caches(redis, ctx)
    /\ \E delay \in TouchDelays :
           LET entity_pass == ModelUpdater_rebuild_all_entity_vectors(ctx, clock, delay)
               users_updated == Cardinality({u \in VectorStore_get_all_user_ids(ctx) :
                                               RecomputeSucceeds(ctx, u, accepts_empty)})
           IN  /\ updated_at' = entity_pass.updated_at
               /\ last_update' = [kind |-> "full", ctx |-> ctx,
                                  updated |-> VectorStore_get_all_user_ids(ctx),
                                  entities_updated |-> entity_pass.updated,
                                  before |-> redis, after |-> redis']
               /\ IF webhook_delivery.configured
                  THEN /\ Len(webhook_tasks) < MaxEvents
                       /\ webhook_tasks' = WebhookDelivery_dispatch_async(
                               webhook_tasks, webhook_delivery,
                               WebhookEvent_model_updated(ctx, users_updated,
                                                          entity_pass.updated))
                  ELSE webhook_tasks' = webhook_tasks
    /\ index_rebuild' = [index_rebuild EXCEPT !.entity_index = TRUE, !.user_index = TRUE]
    /\ UNCHANGED <<interactions, clock, next_tick, refresh_tasks, last_write, updaterFrame>>

\* A full rebuild run on its own
FullRebuild(ctx, accepts_empty) ==
    /\ ModelUpdater_full_rebuild(ctx, accepts_empty)
    /\ UNCHANGED <<full_rebuild_task, pool_retry>>

\* The imported history of u2: two interactions older than the updater's window
HistoryOld ==
    {[user_id |-> "u2", entity_id |-> e, entity_type |-> "product",
      interaction_type |-> "view", timestamp |-> Now - INCREMENTAL_INTERVAL_SECS - 1] :
        e \in {"e1", "e3"}}

NextProfileLag ==
    \/ BulkImportEntities("A", CatalogA)
    \/ ClockTick
    \/ \E entity_id \in {"e1", "e2"} :
           RecordInteractionAt("A", "u1", entity_id, "product", "view")
    \/ BulkImportInteractionsAt("A", HistoryOld)
    \/ \E due \in Now..(MaxClock + PROFILE_UPDATE_DELAY_SECS) :
           ProfileRefreshDue("A", "u1", due)
    \/ \E accepts_empty \in BOOLEAN : IncrementalUpdate("A", accepts_empty)

SpecProfileLag == Init /\ [][NextProfileLag]_vars

\* The requests issued while the updater runs
UpdaterRequestInputs ==
    {[ctx |-> "A", user_id |-> "u1", entity_id |-> None, algorithm |-> Collaborative,
      count |-> 2, entity_type |-> "product"],
     [ctx |-> "A", user_id |-> "u1", entity_id |-> None, algorithm |-> DefaultHybrid,
      count |-> 1, entity_type |-> "product"],
     [ctx |-> "A", user_id |-> None, entity_id |-> "e1", algorithm |-> ContentBased,
      count |-> 2, entity_type |-> "product"]}

NextUpdater ==
    \/ BulkImportEntities("A", CatalogA)
    \/ BulkImportInteractions("A", HistoryA)
    \/ \E request \in UpdaterRequestInputs :
           GetRecommendationsBegin("p1", request.ctx, request)
    \/ \E rk \in Rankings : GetRecommendationsEngine("p1", rk)
    \/ GetRecommendationsFinish("p1")
    \/ GetRecommendationsReturn("p1")
    \/ \E rk \in Rankings : GetTrendingEntities("p1", "A", "product", 1, rk)
    \/ \E accepts_empty \in BOOLEAN : IncrementalUpdate("A", accepts_empty)
    \/ \E accepts_empty \in BOOLEAN : FullRebuild("A", accepts_empty)

SpecUpdater == Init /\ [][NextUpdater]_vars

----------------------------------------------------------------------------
(* SpecDelete: an entity with interactions is deleted, then requests are served *)

\* The catalogue is imported before the delete
ImportCatalogBeforeDelete ==
    /\ epc["c1"] = "idle"
    /\ BulkImportEntities("A", CatalogA)

\* The history is imported before the delete
ImportHistoryBeforeDelete ==
    /\ epc["c1"] = "idle"
    /\ BulkImportInteractions("A", HistoryA)

\* A recommendation request that arrives after the delete
GetRecommendationsAfterDelete(request) ==
    /\ epc["c1"] = "done"
    /\ GetRecommendationsBegin("p1", request.ctx, request)

\* A trending request that arrives after the delete
GetTrendingAfterDelete(count, rk) ==
    /\ epc["c1"] = "done"
    /\ GetTrendingEntities("p1", "A", "product", count, rk)

NextDelete ==
    \/ ImportCatalogBeforeDelete
    \/ ImportHistoryBeforeDelete
    \/ \E entity_id \in {"e1", "e2"} : DeleteEntity("c1", "A", entity_id, "product")
    \/ \E request \in RequestInputs : GetRecommendationsAfterDelete(request)
    \/ \E rk \in Rankings : GetRecommendationsEngine("p1", rk)
    \/ GetRecommendationsFinish("p1")
    \/ GetRecommendationsReturn("p1")
    \/ \E count \in 1..2, rk \in Rankings : GetTrendingAfterDelete(count, rk)

SpecDelete == Init /\ [][NextDelete]_vars

----------------------------------------------------------------------------
(* SpecCacheDown: recommendation and trending requests around a Redis outage *)

\* The Redis server stops answering: from here on every command of RedisCache
\* returns CacheError::ConnectionError
RedisFail ==
    /\ redis_up
    /\ redis_up' = FALSE
    /\ UNCHANGED <<dbVars, cacheVars, profile_tasks, entityProcVars, interactionProcVars,
                   last_read, requestVars, scoreVars, hybridVars, lifecycleVars,
                   validationVars, updaterVars, backgroundVars, webhookVars,
                   directCallVars>>

NextCacheDown ==
    \/ BulkImportEntities("A", CatalogA)
    \/ BulkImportInteractions("A", HistoryA)
    \/ \E p \in RequestProcs, request \in UpdaterRequestInputs :
           GetRecommendationsBegin(p, request.ctx, request)
    \/ \E p \in RequestProcs, rk \in Rankings : GetRecommendationsEngine(p, rk)
    \/ \E p \in RequestProcs : GetRecommendationsFinish(p)
    \/ \E p \in RequestProcs : GetRecommendationsReturn(p)
    \/ \E p \in RequestProcs, rk \in Rankings : GetTrendingEntities(p, "A", "product", 1, rk)
    \/ RedisFail

SpecCacheDown == Init /\ [][NextCacheDown]_vars

----------------------------------------------------------------------------
(* SpecWeights: interaction writes after a weight has been registered *)

\* The weights a tenant registers for the type view
RegisteredWeights == {2 * SCALE, 4 * SCALE}

\* POST /interaction-types between two interaction writes
RegisterInteractionTypeBetweenWrites(ctx, interaction_type, weight) ==
    /\ \A w \in InteractionProcs : ipc[w] = "idle"
    /\ RegisterInteractionType(ctx, interaction_type, weight)

NextWeights ==
    \/ \E weight \in RegisteredWeights :
           RegisterInteractionTypeBetweenWrites("A", "view", weight)
    \/ \E w \in InteractionProcs, entity_id \in {"e1", "e2"},
          interaction_type \in {"view", "purchase"} :
           RecordInteractionBegin(w, "A", "u1", entity_id, "product", interaction_type,
                                  None, <<>>)
    \/ \E w \in InteractionProcs : RecordInteractionApply(w)
    \/ BulkImportInteractions("A", HistoryA)
    \/ BulkImportInteractions("A", HistoryOld)

SpecWeights == Init /\ [][NextWeights]_vars

----------------------------------------------------------------------------
(* SpecMissingAnchor: content-based requests anchored on an entity *)

\* Content-based requests of tenant A: one anchored on b1, which tenant A never
\* has, and one anchored on e1, which its catalogue holds
AnchoredRequestInputs ==
    {[ctx |-> "A", user_id |-> None, entity_id |-> entity_id, algorithm |-> ContentBased,
      count |-> 2, entity_type |-> "product"] : entity_id \in {"b1", "e1"}}

NextMissingAnchor ==
    \/ BulkImportEntities("A", CatalogA)
    \/ BulkImportInteractions("A", HistoryA)
    \/ \E p \in RequestProcs, request \in AnchoredRequestInputs :
           GetRecommendationsBegin(p, request.ctx, request)
    \/ \E p \in RequestProcs, rk \in Rankings : GetRecommendationsEngine(p, rk)
    \/ \E p \in RequestProcs : GetRecommendationsFinish(p)
    \/ \E p \in RequestProcs : GetRecommendationsReturn(p)

SpecMissingAnchor == Init /\ [][NextMissingAnchor]_vars

----------------------------------------------------------------------------
(* SpecWebhook: updater runs that emit events, and their deliveries *)

\* The URL lists a WebhookDelivery is built with
WebhookUrlChoices == {<<>>, <<"url1">>, <<"url1", "url2">>}

NextWebhook ==
    \/ \E webhook_urls \in WebhookUrlChoices, max_retries \in 0..MaxRetries :
           ConfigureWebhooks(webhook_urls, max_retries)
    \/ BulkImportEntities("A", CatalogA)
    \/ BulkImportInteractions("A", HistoryA)
    \/ \E accepts_empty \in BOOLEAN : IncrementalUpdate("A", accepts_empty)
    \/ \E accepts_empty \in BOOLEAN : FullRebuild("A", accepts_empty)
    \/ \E t \in 1..MaxEvents, ok \in BOOLEAN : WebhookSend(t, ok)
    \/ \E t \in 1..MaxEvents : WebhookSleep(t)

SpecWebhook == Init /\ [][NextWebhook]_vars

----------------------------------------------------------------------------
(* DefaultFeatureExtractor *)

\* DefaultFeatureExtractor.dimension, and the number of extract_features calls
FeatureDimension == 2
MaxExtractions == 2

\* enum AttributeValue
Number(n) == [kind |-> "Number", n |-> n]
Boolean(b) == [kind |-> "Boolean", b |-> b]
String(s) == [kind |-> "String", s |-> s]
Array(arr) == [kind |-> "Array", arr |-> arr]

\* s.bytes() of a string of lower-case letters
ByteOf(c) == 96 + (CHOOSE i \in 1..26 : SubSeq("abcdefghijklmnopqrstuvwxyz", i, i) = c)

\* The loop of hash_string: hash.wrapping_mul(31).wrapping_add(byte).  The
\* strings hashed here have at most four bytes, so the u32 never wraps.
RECURSIVE HashBytes(_, _)
HashBytes(hash, s) ==
    IF s = "" THEN hash
    ELSE HashBytes(hash * 31 + ByteOf(SubSeq(s, 1, 1)), SubSeq(s, 2, Len(s)))

\* hash_string: (hash % 1000) as f32 / 1000.0
hash_string(s) == (HashBytes(0, s) % 1000) * (SCALE \div 1000)

RECURSIVE SeqSum(_)
SeqSum(s) == IF s = <<>> THEN 0 ELSE Head(s) + SeqSum(Tail(s))

\* extract_attribute_features: the one feature a value contributes
extract_attribute_features(value) ==
    CASE value.kind = "Number" ->
             IF value.n < 0 THEN 0 ELSE IF value.n > SCALE THEN SCALE ELSE value.n
      [] value.kind = "Boolean" -> IF value.b THEN SCALE ELSE 0
      [] value.kind = "String" -> hash_string(value.s)
      [] value.kind = "Array" ->
             IF value.arr = <<>> THEN 0
             ELSE SeqSum([i \in DOMAIN value.arr |-> hash_string(value.arr[i])])
                      \div Len(value.arr)

\* extract_nested_features: one feature per attribute, pushed in the order in
\* which attributes.iter() yields the entries of the HashMap
extract_nested_features(attributes, iteration) ==
    [i \in 1..Len(iteration) |-> extract_attribute_features(attributes[iteration[i]])]

\* resize_vector: padded with zeros or truncated to the dimension
resize_vector(features) ==
    [i \in 1..FeatureDimension |-> IF i <= Len(features) THEN features[i] ELSE 0]

\* normalize_vector: divided by the L2 norm unless that is zero
normalize_vector(features) ==
    LET magnitude == ISqrt(Dot(features, features))
    IN  IF magnitude > 0 THEN [i \in DOMAIN features |-> FDiv(features[i], magnitude)]
        ELSE features

\* extract_features over a HashMap whose iterator yields the keys in the order
\* iteration
extract_features(attributes, iteration) ==
    normalize_vector(resize_vector(extract_nested_features(attributes, iteration)))

\* The orders in which a HashMap with these keys can be iterated: any, since
\* the order depends on the map's RandomState and on its insertion history
IterationOrders(attributes) ==
    {o \in [1..Cardinality(DOMAIN attributes) -> DOMAIN attributes] :
        \A i, j \in DOMAIN o : i # j => o[i] # o[j]}

\* The attribute maps entities are created with
AttributeBags ==
    {[price |-> Number(SCALE \div 2), in_stock |-> Boolean(TRUE)],
     [brand |-> String("red")],
     [price |-> Number(2 * SCALE), brand |-> String("blue"), in_stock |-> Boolean(FALSE)],
     [tags |-> Array(<<"new", "sale">>), brand |-> String("red")]}

\* One extract_features call, on a map holding the pairs of attributes
ExtractFeatures(attributes, iteration) ==
    /\ Len(extracted) < MaxExtractions
    /\ extracted' = Append(extracted,
                           [attributes |-> attributes, iteration |-> iteration,
                            features |-> extract_features(attributes, iteration)])
    /\ UNCHANGED <<dbVars, cacheVars, profile_tasks, entityProcVars, interactionProcVars,
                   last_read, requestVars, scoreVars, hybridVars, lifecycleVars,
                   validationVars, updaterVars, environmentVars, backgroundVars,
                   webhookVars, collab_call,
                   cold_start_call>>

NextFeatures ==
    \E attributes \in AttributeBags :
        \E iteration \in IterationOrders(attributes) : ExtractFeatures(attributes, iteration)

SpecFeatures == Init /\ [][NextFeatures]_vars

----------------------------------------------------------------------------
(* SpecRequestWeights: hybrid requests that carry their own weights *)

\* The catalogue and the history are imported before the first request
ImportCatalogBeforeRequests ==
    /\ started = 0
    /\ BulkImportEntities("A", CatalogA)

ImportHistoryBeforeRequests ==
    /\ started = 0
    /\ BulkImportInteractions("A", HistoryA)

\* Hybrid requests of u1: with the weights of the engine's configuration, and
\* with weights of their own
WeightedRequestInputs ==
    {[ctx |-> "A", user_id |-> "u1", entity_id |-> None,
      algorithm |-> Hybrid(w, SCALE - w), count |-> 2, entity_type |-> "product"] :
        w \in {HybridConfigDefault.collaborative_weight, 2 * (SCALE \div 10), SCALE}}

NextRequestWeights ==
    \/ ImportCatalogBeforeRequests
    \/ ImportHistoryBeforeRequests
    \/ \E p \in RequestProcs, request \in WeightedRequestInputs :
           GetRecommendationsBegin(p, request.ctx, request)
    \/ \E p \in RequestProcs, rk \in Rankings : GetRecommendationsEngine(p, rk)
    \/ \E p \in RequestProcs : GetRecommendationsFinish(p)
    \/ \E p \in RequestProcs : GetRecommendationsReturn(p)

SpecRequestWeights == Init /\ [][NextRequestWeights]_vars

----------------------------------------------------------------------------
(* SpecPermitShutdown: hybrid calls waiting for a permit when the signal comes *)

\* The semaphore is created in HybridEngine::new and never closed: acquire has
\* no way to fail, so a waiting call has the one step HybridAcquire.  A woken
\* waiter is polled by the runtime (weak fairness of HybridAcquire); the calls
\* that hold the permits take as long as their engines take, and nothing
\* obliges them to return.
NextPermitShutdown ==
    \/ HybridCall
    \/ HybridAcquire
    \/ \E hit \in BOOLEAN : HybridLookup(hit)
    \/ HybridReturn
    \/ ShutdownSignal

SpecPermitShutdown ==
    Init /\ [][NextPermitShutdown]_vars /\ WF_vars(HybridAcquire)

----------------------------------------------------------------------------
(* SpecCollaborativeCall: generate_recommendations of the collaborative engine *)

\* The history of u2, a neighbour of u1: five interactions, one of them with
\* e3, which u1 has not touched
HistoryNeighbour ==
    {[user_id |-> "u2", entity_id |-> "e1", entity_type |-> "product",
      interaction_type |-> t, timestamp |-> Now - d] :
         t \in {"view", "purchase"}, d \in 1..2}
    \cup {[user_id |-> "u2", entity_id |-> "e3", entity_type |-> "product",
           interaction_type |-> "purchase", timestamp |-> Now - 1]}

\* One generate_recommendations call; the profile row it found is kept with
\* its result
GenerateRecommendations(ctx, user_id, count, entity_type, rk) ==
    /\ LET out == CollaborativeFilteringEngine_generate_recommendations(
                      ctx, user_id, count, entity_type, rk)
       IN  collab_call' = [called |-> TRUE, ctx |-> ctx, user_id |-> user_id, count |-> count,
                         profile |-> VectorStore_get_user_profile(ctx, user_id),
                         result |-> out.result, list |-> out.list]
    /\ UNCHANGED <<dbVars, cacheVars, profile_tasks, entityProcVars, interactionProcVars,
                   last_read, requestVars, scoreVars, hybridVars, lifecycleVars,
                   validationVars, updaterVars, environmentVars, backgroundVars,
                   webhookVars, extracted,
                   cold_start_call>>

NextCollaborativeCall ==
    \/ BulkImportEntities("A", CatalogA)
    \/ BulkImportInteractions("A", HistoryA)
    \/ BulkImportInteractions("A", HistoryNeighbour)
    \/ \E accepts_empty \in BOOLEAN : FullRebuild("A", accepts_empty)
    \/ \E accepts_empty \in BOOLEAN : IncrementalUpdate("A", accepts_empty)
    \/ \E user_id \in {"u1", "u2"}, count \in 1..2, rk \in Rankings :
           GenerateRecommendations("A", user_id, count, "product", rk)

SpecCollaborativeCall == Init /\ [][NextCollaborativeCall]_vars

----------------------------------------------------------------------------
(* SpecSupplement: get_recommendations_with_cold_start of the collaborative *)
(* engine, for users whose personalised list is shorter than the count      *)

\* Tenant A's articles: e1 is also the id of an article
ArticlesA == {[entity_id |-> "e1", entity_type |-> "article", attributes |-> "attrs1"]}

\* u2's reading history: the article e1
HistoryArticles ==
    {[user_id |-> "u2", entity_id |-> "e1", entity_type |-> "article",
      interaction_type |-> "view", timestamp |-> Now - 3]}

\* The entity_type filters of the calls
TypeFilters == {"product", None}

\* One get_recommendations_with_cold_start call. Kept with its result: whether
\* the user was cold, the personalised list generate_recommendations gave, and
\* the trending list get_trending_entities gave for the missing entries.
GetRecommendationsWithColdStart(ctx, user_id, count, entity_type, rk) ==
    /\ LET out == CollaborativeFilteringEngine_get_recommendations_with_cold_start(
                      redis, ctx, user_id, count, entity_type, rk)
           cold == CollaborativeFilteringEngine_is_cold_start_user(ctx, user_id)
           recommendations == CollaborativeFilteringEngine_generate_recommendations(
                                  ctx, user_id, count, entity_type, rk)
           needed == count - Len(recommendations.list)
           trending == IF ~cold /\ recommendations.result = "Ok" /\ needed > 0
                       THEN CollaborativeFilteringEngine_get_trending_entities(
                                redis, ctx, entity_type, needed, rk).list
                       ELSE <<>>
       IN  /\ cold_start_call' = [called |-> TRUE, ctx |-> ctx, user_id |-> user_id,
                                  count |-> count, entity_type |-> entity_type,
                                  cold |-> cold, recommendations |-> recommendations,
                                  trending |-> trending, result |-> out.result,
                                  list |-> out.list, cold_start |-> out.cold_start]
           /\ redis' = out.redis
    /\ UNCHANGED <<dbVars, request_cache, profile_tasks, entityProcVars, interactionProcVars,
                   last_read, requestVars, scoreVars, hybridVars, lifecycleVars,
                   validationVars, updaterVars, environmentVars, backgroundVars,
                   webhookVars, extracted,
                   collab_call>>

NextSupplement ==
    \/ BulkImportEntities("A", CatalogA \cup ArticlesA)
    \/ BulkImportInteractions("A", HistoryA)
    \/ BulkImportInteractions("A", HistoryNeighbour \cup HistoryArticles)
    \/ \E accepts_empty \in BOOLEAN : IncrementalUpdate("A", accepts_empty)
    \/ \E count \in {3}, entity_type \in TypeFilters, rk \in Rankings :
           GetRecommendationsWithColdStart("A", "u2", count, entity_type, rk)

SpecSupplement == Init /\ [][NextSupplement]_vars

----------------------------------------------------------------------------
(* SpecFullRebuild: full rebuilds of a tenant whose interactions are         *)
(* imported in bulk, before or after the incremental tick that writes the    *)
(* profile rows of the users it finds                                        *)

NextFullRebuild ==
    \/ BulkImportEntities("A", CatalogA)
    \/ BulkImportEntities("A", ArticlesA)
    \/ BulkImportInteractions("A", HistoryA)
    \/ BulkImportInteractions("A", HistoryNeighbour)
    \/ BulkImportInteractions("A", HistoryArticles)
    \/ \E accepts_empty \in BOOLEAN : IncrementalUpdate("A", accepts_empty)
    \/ \E accepts_empty \in BOOLEAN : FullRebuild("A", accepts_empty)

SpecFullRebuild == Init /\ [][NextFullRebuild]_vars

----------------------------------------------------------------------------
(* SpecDiversity: the hybrid ranking over candidates of two entity types *)

\* HybridConfig.min_categories of the engines of this specification
MinCategories == 2

\* The counts asked for
DiversityCounts == 2..3

\* The candidates: two products and an article
DiverseEntities ==
    {[entity_id |-> id, entity_type |-> IF id = "e3" THEN "article" ELSE "product",
      score |-> s] : id \in {"e1", "e2", "e3"}, s \in {SCALE \div 2, SCALE, 2 * SCALE}}

\* The lists of at most MaxListLen candidates with distinct ids
DiverseLists ==
    {s \in UNION {[1..n -> DiverseEntities] : n \in 0..MaxListLen} :
        \A i, j \in DOMAIN s : s[i].entity_id = s[j].entity_id => i = j}

\* HybridEngine::new with the default weights and min_categories = MinCategories
InitDiversity ==
    /\ InitTables /\ InitCaches /\ InitCallers /\ InitRuntime
    /\ config \in {[HybridConfigDefault EXCEPT !.min_categories = MinCategories,
                                               !.enable_diversity = d] : d \in BOOLEAN}
    /\ collab_in \in DiverseLists
    /\ content_in \in DiverseLists
    /\ combined = <<>>

NextDiversity == \E count \in DiversityCounts, rk \in Rankings : CombineScores(count, rk)

SpecDiversity == InitDiversity /\ [][NextDiversity]_vars

----------------------------------------------------------------------------
(* The trending recomputation task of the model updater *)

\* for cache_count in [10, 20, 50, 100]
TrendingCacheCounts == {10, 20, 50, 100}

\* SELECT DISTINCT entity_type FROM entities WHERE tenant_id = $1
VectorStore_get_all_entity_types(ctx) ==
    {e.entity_type : e \in {x \in entities : x.tenant_id = ctx}}

\* serde_json::to_string of a Vec<(String, String, f32)>: a JSON array of
\* arrays of three values
TuplesJson(list) ==
    [kind |-> "tuples",
     list |-> [i \in DOMAIN list |->
                  <<list[i].entity_id, list[i].entity_type, list[i].score>>]]

\* score / max_score, or 0.0 when the largest score is not positive
NormalizeOrZero(list) ==
    [i \in DOMAIN list |->
        [list[i] EXCEPT !.score = IF MaxScore(list) > 0 THEN FDiv(@, MaxScore(list)) ELSE 0]]

\* The cache after the writes of the counts of cache_counts
RECURSIVE WriteTrendingSubsets(_, _, _, _, _)
WriteTrendingSubsets(r, ctx, entity_type, normalized_trending, cache_counts) ==
    IF cache_counts = {} THEN r
    ELSE LET cache_count == CHOOSE n \in cache_counts : TRUE
             cache_key == "trending:" \o ctx \o ":" \o entity_type \o ":"
                              \o ToString(cache_count)
         IN  WriteTrendingSubsets(
                 RedisSet(r, cache_key, TuplesJson(Truncate(normalized_trending, cache_count))),
                 ctx, entity_type, normalized_trending, cache_counts \ {cache_count})

\* calculate_trending_for_type: the cache afterwards
ModelUpdater_calculate_trending_for_type(r, ctx, entity_type, rk) ==
    LET trending_stats == VectorStore_get_trending_entity_stats(
                              ctx, IF entity_type = "all" THEN None ELSE entity_type, 100, rk)
    IN  IF trending_stats = <<>> THEN r
        ELSE WriteTrendingSubsets(r, ctx, entity_type, NormalizeOrZero(trending_stats),
                                  TrendingCacheCounts)

\* The loop of update_trending over entity_types
RECURSIVE CalculateTrendingForTypes(_, _, _, _)
CalculateTrendingForTypes(r, ctx, entity_types, rk) ==
    IF entity_types = {} THEN r
    ELSE LET entity_type == CHOOSE t \in entity_types : TRUE
         IN  CalculateTrendingForTypes(
                 ModelUpdater_calculate_trending_for_type(r, ctx, entity_type, rk),
                 ctx, entity_types \ {entity_type}, rk)

\* WebhookEvent::trending_changed
WebhookEvent_trending_changed(tenant_id, entity_type, trending_count) ==
    [event_type |-> "trending_changed", tenant_id |-> tenant_id,
     entity_type |-> entity_type, trending_count |-> trending_count]

\* The events dispatched at the end of update_trending, one per entity type
RECURSIVE DispatchTrendingChanged(_, _, _, _, _)
DispatchTrendingChanged(tasks, delivery, ctx, entity_types, rk) ==
    IF entity_types = {} THEN tasks
    ELSE LET entity_type == CHOOSE t \in entity_types : TRUE
             count == Len(VectorStore_get_trending_entity_stats(ctx, entity_type, 100, rk))
         IN  DispatchTrendingChanged(
                 WebhookDelivery_dispatch_async(
                     tasks, delivery, WebhookEvent_trending_changed(ctx, entity_type, count)),
                 delivery, ctx, entity_types \ {entity_type}, rk)

\* update_trending: every entity type of the tenant, then "all"
UpdateTrending(ctx, rk) ==
    /\ redis' = ModelUpdater_calculate_trending_for_type(
                    CalculateTrendingForTypes(redis, ctx,
                                              VectorStore_get_all_entity_types(ctx), rk),
                    ctx, "all", rk)
    /\ IF webhook_delivery.configured /\ VectorStore_get_all_entity_types(ctx) # {}
       THEN /\ Len(webhook_tasks) + Cardinality(VectorStore_get_all_entity_types(ctx))
                   <= MaxEvents
            /\ webhook_tasks' = DispatchTrendingChanged(
                                    webhook_tasks, webhook_delivery, ctx,
                                    VectorStore_get_all_entity_types(ctx), rk)
       ELSE webhook_tasks' = webhook_tasks
    /\ UNCHANGED <<interactions, user_profiles, clock, next_tick, refresh_tasks, last_write,
                   last_update, updated_at, backgroundVars, updaterFrame>>

----------------------------------------------------------------------------
(* SpecTrending: the trending task and the readers of its cache entries *)

\* The counts the readers ask for
TrendingReadCounts == {10, 20}

NextTrending ==
    \/ BulkImportEntities("A", CatalogA)
    \/ BulkImportInteractions("A", HistoryA)
    \/ BulkImportInteractions("A", HistoryNeighbour)
    \/ \E rk \in Rankings : UpdateTrending("A", rk)
    \/ \E count \in TrendingReadCounts, rk \in Rankings :
           GetTrendingEntities("p1", "A", "product", count, rk)
    \/ GetRecommendationsReturn("p1")

SpecTrending == Init /\ [][NextTrending]_vars

----------------------------------------------------------------------------
(* SpecQuiescence: the incremental ticks of a tenant whose catalog is        *)
(* imported once and then left alone.  Time has no bound here: a second      *)
(* that passes moves every stored instant one second into the past instead   *)
(* of moving the clock forward, which is the same to every query of the      *)
(* tick, since each of them compares a stored instant with NOW() only.       *)
(* The callers write once each, into empty tables, and never again.          *)

\* One second passes.  An instant that lies INCREMENTAL_INTERVAL_SECS or more
\* in the past is outside the window of every later tick, and stays there
SecondPasses ==
    /\ next_tick > clock
    /\ next_tick' = next_tick - 1
    /\ updated_at' = [k \in DOMAIN updated_at |->
                         Max(updated_at[k] - 1, clock - INCREMENTAL_INTERVAL_SECS)]
    /\ interactions' = {[i EXCEPT !.timestamp = Max(@ - 1, clock - INCREMENTAL_INTERVAL_SECS)] :
                           i \in interactions}
    /\ UNCHANGED <<user_profiles, redis, clock, refresh_tasks, last_write, last_update,
                   webhook_tasks, backgroundVars, updaterFrame>>

NextQuiescence ==
    \/ entities = {} /\ BulkImportEntities("A", CatalogA)
    \/ interactions = {} /\ BulkImportInteractions("A", HistoryArticles)
    \/ SecondPasses
    \/ \E accepts_empty \in BOOLEAN : IncrementalUpdate("A", accepts_empty)

\* The interval timer fires at every multiple of its period and time passes
SpecQuiescence ==
    Init /\ [][NextQuiescence]_vars
         /\ WF_vars(SecondPasses)
         /\ WF_vars(\E accepts_empty \in BOOLEAN : IncrementalUpdate("A", accepts_empty))

----------------------------------------------------------------------------
(* The task of start_full_rebuild.  Its instants are whole hours counted    *)
(* from a local midnight.                                                   *)

FULL_REBUILD_INTERVAL_HOURS == 24
LOW_TRAFFIC_HOUR == 3
HOURS_PER_DAY == 24

\* The hours of the day at which the task is spawned, the hours one
\* full_rebuild call takes, and the number of rebuilds followed
SpawnHours == 0..(HOURS_PER_DAY - 1)
RebuildHours == {0, 1, 25}
MaxRebuilds == 3

\* calculate_delay_until_low_traffic: the time until the next 3 AM
calculate_delay_until_low_traffic(now) ==
    LET today == (now \div HOURS_PER_DAY) * HOURS_PER_DAY + LOW_TRAFFIC_HOUR
        target == IF now % HOURS_PER_DAY >= LOW_TRAFFIC_HOUR
                  THEN today + HOURS_PER_DAY ELSE today
    IN  Max(target - now, 0)

\* tokio Interval::tick under MissedTickBehavior::Skip: the instant at which the
\* tick completes and the deadline of the tick after it
Interval_tick(deadline, now, period) ==
    LET at == Max(now, deadline)
    IN  [at |-> at,
         deadline |-> IF at > deadline
                      THEN at + period - ((at - deadline) % period)
                      ELSE deadline + period]

\* tokio::spawn of the task: interval() is created, its first tick due at once,
\* and the task sleeps for the initial delay if there is one
StartFullRebuild(now) ==
    /\ full_rebuild_task.pc = "unspawned"
    /\ LET initial_delay == calculate_delay_until_low_traffic(now)
       IN  full_rebuild_task' =
               [pc |-> IF initial_delay > 0 THEN "sleeping" ELSE "rebuilding",
                now |-> now, deadline |-> now, wake |-> now + initial_delay,
                low_traffic |-> now + initial_delay, starts |-> <<>>]
    /\ UNCHANGED <<dbVars, cacheVars, profile_tasks, entityProcVars, interactionProcVars,
                   last_read, requestVars, scoreVars, hybridVars, lifecycleVars,
                   validationVars, updaterVars, environmentVars, index_rebuild, pool_retry,
                   webhookVars, directCallVars>>

\* sleep(initial_delay).await completes
FullRebuildSleepEnds ==
    /\ full_rebuild_task.pc = "sleeping"
    /\ full_rebuild_task' = [full_rebuild_task EXCEPT !.pc = "rebuilding", !.now = full_rebuild_task.wake]
    /\ UNCHANGED <<dbVars, cacheVars, profile_tasks, entityProcVars, interactionProcVars,
                   last_read, requestVars, scoreVars, hybridVars, lifecycleVars,
                   validationVars, updaterVars, environmentVars, index_rebuild, pool_retry,
                   webhookVars, directCallVars>>

\* The loop's self.full_rebuild(&ctx).await, which takes `hours`; an Err is
\* logged and the loop goes on to the tick all the same
FullRebuildTaskRuns(ctx, accepts_empty, ok, hours) ==
    /\ full_rebuild_task.pc = "rebuilding"
    /\ Len(full_rebuild_task.starts) < MaxRebuilds
    /\ full_rebuild_task' = [full_rebuild_task EXCEPT
                                !.pc = "ticking",
                                !.starts = Append(@, full_rebuild_task.now),
                                !.now = full_rebuild_task.now + hours]
    /\ IF ok
       THEN ModelUpdater_full_rebuild(ctx, accepts_empty)
       ELSE UNCHANGED <<dbVars, cacheVars, profile_tasks, entityProcVars, interactionProcVars,
                        last_read, requestVars, scoreVars, hybridVars, lifecycleVars,
                        validationVars, updaterVars, environmentVars, index_rebuild,
                        webhookVars, directCallVars>>
    /\ UNCHANGED pool_retry

\* interval_timer.tick().await completes
FullRebuildTick ==
    /\ full_rebuild_task.pc = "ticking"
    /\ LET tick == Interval_tick(full_rebuild_task.deadline, full_rebuild_task.now,
                                 FULL_REBUILD_INTERVAL_HOURS)
       IN  full_rebuild_task' = [full_rebuild_task EXCEPT
                                    !.pc = "rebuilding", !.now = tick.at,
                                    !.deadline = tick.deadline]
    /\ UNCHANGED <<dbVars, cacheVars, profile_tasks, entityProcVars, interactionProcVars,
                   last_read, requestVars, scoreVars, hybridVars, lifecycleVars,
                   validationVars, updaterVars, environmentVars, index_rebuild, pool_retry,
                   webhookVars, directCallVars>>

NextRebuildTask ==
    \/ BulkImportEntities("A", CatalogA)
    \/ \E now \in SpawnHours : StartFullRebuild(now)
    \/ FullRebuildSleepEnds
    \/ \E accepts_empty, ok \in BOOLEAN, hours \in RebuildHours :
           FullRebuildTaskRuns("A", accepts_empty, ok, hours)
    \/ FullRebuildTick

SpecRebuildTask == Init /\ [][NextRebuildTask]_vars

----------------------------------------------------------------------------
(* SpecTypeFilter: requests that differ in their entity_type filter only *)

FilteredRequestInputs ==
    {[ctx |-> "A", user_id |-> "u1", entity_id |-> None, algorithm |-> algorithm,
      count |-> 2, entity_type |-> entity_type] :
        algorithm \in {Collaborative, ContentBased}, entity_type \in {"product", "article"}}

NextTypeFilter ==
    \/ BulkImportEntities("A", CatalogA \cup ArticlesA)
    \/ BulkImportInteractions("A", HistoryA \cup HistoryArticles)
    \/ \E p \in RequestProcs, request \in FilteredRequestInputs :
           GetRecommendationsBegin(p, request.ctx, request)
    \/ \E p \in RequestProcs, rk \in Rankings : GetRecommendationsEngine(p, rk)
    \/ \E p \in RequestProcs : GetRecommendationsFinish(p)
    \/ \E p \in RequestProcs : GetRecommendationsReturn(p)

SpecTypeFilter == Init /\ [][NextTypeFilter]_vars

----------------------------------------------------------------------------
(* SpecCacheFrame: the updater of tenant A next to the cached responses of   *)
(* tenant B.  Ids are chosen by the callers: tenant A has a user whose id    *)
(* is "B", and tenant B a user whose id is "A".                              *)

\* Tenant A's imported history: one recent interaction of its user "B"
HistoryNamesake ==
    {[user_id |-> "B", entity_id |-> "e1", entity_type |-> "product",
      interaction_type |-> "view", timestamp |-> Now - 1]}

\* Tenant B's requests, for its users u1 and "A"
NamesakeRequestInputs ==
    {[ctx |-> "B", user_id |-> user_id, entity_id |-> None, algorithm |-> Collaborative,
      count |-> 2, entity_type |-> "product"] : user_id \in {"u1", "A"}}

NextCacheFrame ==
    \/ BulkImportEntities("B", CatalogA)
    \/ BulkImportInteractions("A", HistoryNamesake)
    \/ \E p \in RequestProcs, request \in NamesakeRequestInputs :
           GetRecommendationsBegin(p, request.ctx, request)
    \/ \E p \in RequestProcs, rk \in Rankings : GetRecommendationsEngine(p, rk)
    \/ \E p \in RequestProcs : GetRecommendationsFinish(p)
    \/ \E p \in RequestProcs : GetRecommendationsReturn(p)
    \/ \E p \in RequestProcs, rk \in Rankings :
           GetTrendingEntities(p, "B", "product", 2, rk)
    \/ \E accepts_empty \in BOOLEAN : IncrementalUpdate("A", accepts_empty)
    \/ \E accepts_empty \in BOOLEAN : FullRebuild("A", accepts_empty)

SpecCacheFrame == Init /\ [][NextCacheFrame]_vars

----------------------------------------------------------------------------
(* rebuild_vector_indices, statement by statement *)

\* The number of index rebuilds followed
MaxIndexRebuilds == 2

indexFrame == <<dbVars, cacheVars, profile_tasks, entityProcVars, interactionProcVars,
                last_read, requestVars, scoreVars, hybridVars, lifecycleVars,
                validationVars, updaterVars, environmentVars, full_rebuild_task, pool_retry,
                webhookVars, directCallVars>>

\* The full rebuild task reaches rebuild_vector_indices
RebuildVectorIndicesBegin ==
    /\ index_rebuild.pc \in {"idle", "completed", "failed"}
    /\ index_rebuild.runs < MaxIndexRebuilds
    /\ index_rebuild' = [index_rebuild EXCEPT !.pc = "drop_entity",
                                               !.runs = index_rebuild.runs + 1]
    /\ UNCHANGED indexFrame

\* rebuild_entity_vector_index: DROP INDEX IF EXISTS; an error ends the rebuild
DropEntityIndex(ok) ==
    /\ index_rebuild.pc = "drop_entity"
    /\ index_rebuild' = IF ok THEN [index_rebuild EXCEPT !.pc = "create_entity",
                                                         !.entity_index = FALSE]
                        ELSE [index_rebuild EXCEPT !.pc = "failed"]
    /\ UNCHANGED indexFrame

\* create_entity_vector_index: CREATE INDEX IF NOT EXISTS; an error ends the rebuild
CreateEntityIndex(ok) ==
    /\ index_rebuild.pc = "create_entity"
    /\ index_rebuild' = IF ok THEN [index_rebuild EXCEPT !.pc = "drop_user",
                                                         !.entity_index = TRUE]
                        ELSE [index_rebuild EXCEPT !.pc = "failed"]
    /\ UNCHANGED indexFrame

\* rebuild_user_vector_index: DROP INDEX IF EXISTS
DropUserIndex(ok) ==
    /\ index_rebuild.pc = "drop_user"
    /\ index_rebuild' = IF ok THEN [index_rebuild EXCEPT !.pc = "create_user",
                                                         !.user_index = FALSE]
                        ELSE [index_rebuild EXCEPT !.pc = "failed"]
    /\ UNCHANGED indexFrame

\* create_user_vector_index: CREATE INDEX IF NOT EXISTS
CreateUserIndex(ok) ==
    /\ index_rebuild.pc = "create_user"
    /\ index_rebuild' = IF ok THEN [index_rebuild EXCEPT !.pc = "completed",
                                                         !.user_index = TRUE]
                        ELSE [index_rebuild EXCEPT !.pc = "failed"]
    /\ UNCHANGED indexFrame

\* TaskScheduler::abort_all: the task is dropped at the await it is parked on;
\* the statements that have run stay as they are
TaskScheduler_abort_all ==
    /\ index_rebuild.pc \in {"drop_entity", "create_entity", "drop_user", "create_user"}
    /\ index_rebuild' = [index_rebuild EXCEPT !.pc = "aborted"]
    /\ UNCHANGED indexFrame

NextIndexRebuild ==
    \/ BulkImportEntities("A", CatalogA)
    \/ BulkImportInteractions("A", HistoryA)
    \/ RebuildVectorIndicesBegin
    \/ \E ok \in BOOLEAN : DropEntityIndex(ok)
    \/ \E ok \in BOOLEAN : CreateEntityIndex(ok)
    \/ \E ok \in BOOLEAN : DropUserIndex(ok)
    \/ \E ok \in BOOLEAN : CreateUserIndex(ok)
    \/ TaskScheduler_abort_all

SpecIndexRebuild == Init /\ [][NextIndexRebuild]_vars

----------------------------------------------------------------------------
(* Database::new: create_pool_with_retry *)

\* let max_retries = 3; let mut backoff_ms = 1000
max_retries == 3
INITIAL_BACKOFF_MS == 1000

\* backoff_ms *= 2
NextBackoff_Constant(backoff_ms) == backoff_ms

NextBackoff(backoff_ms) == backoff_ms * 2

poolFrame == <<dbVars, cacheVars, profile_tasks, entityProcVars, interactionProcVars,
               last_read, requestVars, scoreVars, hybridVars, lifecycleVars,
               validationVars, updaterVars, environmentVars, full_rebuild_task,
               index_rebuild, webhookVars, directCallVars>>

\* create_pool_with_retry is entered
CreatePoolWithRetry ==
    /\ pool_retry.pc = "unstarted"
    /\ pool_retry' = [pc |-> "create_pool", retry_count |-> 0,
                      backoff_ms |-> INITIAL_BACKOFF_MS,
                      attempts |-> <<>>, waits |-> <<>>, result |-> None]
    /\ UNCHANGED poolFrame

\* One pass of the loop up to the sleep: create_pool connects or fails
CreatePool(connects) ==
    /\ pool_retry.pc = "create_pool"
    /\ LET retry_count == pool_retry.retry_count + 1
           attempted == [pool_retry EXCEPT !.attempts = Append(@, connects)]
       IN  pool_retry' =
               IF connects
               THEN [attempted EXCEPT !.pc = "returned", !.result = "Ok"]
               ELSE IF retry_count >= max_retries
               THEN [attempted EXCEPT !.pc = "returned", !.result = "Err",
                                      !.retry_count = retry_count]
               ELSE [attempted EXCEPT !.pc = "sleeping", !.retry_count = retry_count]
    /\ UNCHANGED poolFrame

\* tokio::time::sleep(backoff_ms) completes and the backoff doubles
PoolRetrySleepEnds ==
    /\ pool_retry.pc = "sleeping"
    /\ pool_retry' = [pool_retry EXCEPT !.pc = "create_pool",
                                        !.waits = Append(@, pool_retry.backoff_ms),
                                        !.backoff_ms = NextBackoff(pool_retry.backoff_ms)]
    /\ UNCHANGED poolFrame

\* The pool is there: the services built on it take calls
PoolCreated == pool_retry.pc = "returned" /\ pool_retry.result = "Ok"

NextDatabase ==
    \/ CreatePoolWithRetry
    \/ \E connects \in BOOLEAN : CreatePool(connects)
    \/ PoolRetrySleepEnds
    \/ PoolCreated /\ NextEntity

SpecDatabase == Init /\ [][NextDatabase]_vars

\* The runtime polls the task until it returns
SpecDatabaseFair ==
    SpecDatabase /\ WF_vars(CreatePoolWithRetry)
                 /\ WF_vars(\E connects \in BOOLEAN : CreatePool(connects))
                 /\ WF_vars(PoolRetrySleepEnds)

----------------------------------------------------------------------------
(* Properties of the store-level operations *)

\* C5: two record_interaction calls with the same (tenant, user, entity,
\* interaction_type, timestamp), one after the other or concurrently, leave
\* exactly one row for that key, and the row's weight and metadata are those
\* of the call applied last.
C5_DedupLastApplied ==
    \A k \in DOMAIN last_applied :
        LET rows == {i \in interactions : InteractionKey(i) = k}
        IN  /\ Cardinality(rows) = 1
            /\ \A i \in rows : /\ i.weight = last_applied[k].last.weight
                               /\ i.metadata = last_applied[k].last.metadata

\* Two calls with different weight and metadata have been applied to one key.
C5_Witness ==
    \E k \in DOMAIN last_applied :
        /\ last_applied[k].first.weight # last_applied[k].last.weight
        /\ last_applied[k].first.metadata # last_applied[k].last.metadata

\* C8: every vector-store read under tenant context A selects only rows whose
\* tenant_id is A, and get_entity under A for an (id, type) that tenant A does
\* not hold returns None, also when another tenant holds it.
C8_ReadsTenantScoped ==
    last_read.op # "none" =>
        /\ \A r \in last_read.rows : r.tenant_id = last_read.ctx
        /\ (last_read.op = "get_entity" /\ ~last_read.present) => last_read.rows = {}

\* get_entity under a tenant for an entity only another tenant holds returned None.
C8_Witness ==
    /\ last_read.op = "get_entity"
    /\ last_read.elsewhere
    /\ ~last_read.present
    /\ last_read.rows = {}

\* C10: create_entity for a (tenant, id, type) already present fails with
\* InvalidRequest and leaves the stored entity unchanged; of concurrent
\* create_entity calls for one key at most one succeeds, every other fails
\* with InvalidRequest, and exactly one row exists afterwards.
C10_CreateEntityDuplicate ==
    /\ \A e1, e2 \in entities : EntityKey(e1) = EntityKey(e2) => e1 = e2
    /\ \A p \in EntityProcs : epc[p] = "done" =>
          /\ eres[p].result \in {"Ok", "InvalidRequest"}
          /\ eres[p].before # {} =>
                (eres[p].result = "InvalidRequest" /\ eres[p].after = eres[p].before)
          /\ eres[p].before = {} => eres[p].result = "Ok"
          /\ Cardinality(eres[p].after) = 1
          /\ Cardinality(VectorStore_get_entity(ereq[p].ctx, ereq[p].entity_id,
                                                ereq[p].entity_type)) = 1
    /\ \A p, q \in EntityProcs :
          (/\ p # q /\ epc[p] = "done" /\ epc[q] = "done"
           /\ ereq[p].ctx = ereq[q].ctx /\ ereq[p].entity_id = ereq[q].entity_id
           /\ ereq[p].entity_type = ereq[q].entity_type)
              => ~(eres[p].result = "Ok" /\ eres[q].result = "Ok")

\* Two calls for one key both passed the uniqueness check; one inserted, the
\* other failed at its INSERT.
C10_Witness ==
    \E p, q \in EntityProcs :
        /\ p # q /\ epc[p] = "done" /\ epc[q] = "done"
        /\ ereq[p].ctx = ereq[q].ctx /\ ereq[p].entity_id = ereq[q].entity_id
        /\ ereq[p].attributes # ereq[q].attributes
        /\ eres[p].result = "Ok"
        /\ eres[q].result = "InvalidRequest" /\ eres[q].at = "insert"

----------------------------------------------------------------------------
(* Properties of the recommendation service *)

\* A scored entity is one of the tenant's: the tenant has an entity row or an
\* interaction row with its id and type
BelongsTo(ctx, e) ==
    \/ \E x \in entities : /\ x.tenant_id = ctx /\ x.entity_id = e.entity_id
                           /\ x.entity_type = e.entity_type
    \/ \E i \in interactions : /\ i.tenant_id = ctx /\ i.entity_id = e.entity_id
                               /\ i.entity_type = e.entity_type

\* A call that has produced a response
Answered(p) == pc[p] = "done" /\ resp[p].result = "Ok"

\* A recommendation request the service routes by its user
UserAnchored(q) ==
    /\ q.op = "get_recommendations"
    /\ q.user_id # None
    /\ ~(q.algorithm.name = "ContentBased" /\ q.entity_id # None)

\* C1: every entity in a recommendation or trending result returned to a
\* request made under a tenant belongs to that tenant, whatever was written and
\* requested under the other tenant before.
C1_ResultsOfOwnTenant ==
    \A p \in RequestProcs :
        Answered(p) => \A e \in Range(resp[p].recommendations) : BelongsTo(req[p].ctx, e)

\* C2: of the get_recommendations calls for one cache key that run while
\* neither cache tier holds the key, only one runs the engines, and all of them
\* return the same result.
C2_EnginesRunOncePerKey ==
    \A p \in RequestProcs :
        (pc[p] \in {"finish", "done"} /\ resp[p].source = "engine") =>
            /\ req[p].overlap = {}
            /\ \A q \in RequestProcs \ {p} :
                   (/\ Answered(p) /\ Answered(q)
                    /\ req[q].cache_key = req[p].cache_key /\ p \in req[q].overlap)
                       => resp[q].recommendations = resp[p].recommendations

\* C3: no entity returned to a user-anchored recommendation request is one the
\* user had interacted with when the request was made.
C3_NothingAlreadyInteracted ==
    \A p \in RequestProcs :
        (Answered(p) /\ UserAnchored(req[p])) =>
            Ids(resp[p].recommendations) \cap req[p].interacted = {}

\* C4 as stated: the cold_start flag of a response to a user-anchored request
\* is true if and only if the user had fewer than 5 recorded interactions at
\* the time of the call (5 or more when the call began: false; fewer than 5
\* when the response was produced: true).
C4_ColdStartIffBelowThreshold ==
    \A p \in RequestProcs :
        (Answered(p) /\ UserAnchored(req[p])) =>
            /\ req[p].interaction_count >= COLD_START_THRESHOLD => ~resp[p].cold_start
            /\ resp[p].interaction_count < COLD_START_THRESHOLD => resp[p].cold_start

\* C4, amended: a response to a user-anchored request has cold_start = false
\* only if the user had at least 5 recorded interactions when the response was
\* produced; so a user with fewer than 5 always gets cold_start = true.
C4_WarmOnlyAtThreshold ==
    \A p \in RequestProcs :
        (Answered(p) /\ UserAnchored(req[p]) /\ ~resp[p].cold_start) =>
            resp[p].interaction_count >= COLD_START_THRESHOLD

\* The engines answered a user-anchored request with cold_start = false
C4_Witness ==
    \E p \in RequestProcs :
        /\ Answered(p) /\ UserAnchored(req[p])
        /\ resp[p].source = "engine" /\ ~resp[p].cold_start
        /\ resp[p].interaction_count = COLD_START_THRESHOLD

\* C6: the list returned to an accepted recommendation or trending request has
\* at most count entries, for every algorithm and on every path.
C6_AtMostCount ==
    \A p \in RequestProcs :
        (pc[p] \in {"finish", "done"} /\ resp[p].result = "Ok") =>
            Len(resp[p].recommendations) <= req[p].count

\* A personalised list, filled up from the trending list to exactly count entries
C6_Witness ==
    \E p \in RequestProcs :
        /\ Answered(p) /\ req[p].algorithm.name = "Collaborative"
        /\ resp[p].source = "engine" /\ ~resp[p].cold_start
        /\ Len(resp[p].recommendations) = req[p].count
        /\ req[p].count > 1

\* C7: when both sub-lists are non-empty, every score of the hybrid result lies
\* in [0, 1], for every weight pair the configuration validation accepts.
C7_HybridScoresInUnitInterval ==
    (collab_in # <<>> /\ content_in # <<>>) =>
        \A e \in Range(combined) : 0 <= e.score /\ e.score <= SCALE

\* C9: a Hybrid{0.6, 0.4} request for a user with exactly 3 recorded
\* interactions, answered by the engines, has cold_start = true and the list
\* that is the tenant's trending list cut to the requested count.
C9_ColdStartListIsTenantTrending ==
    \A p \in RequestProcs :
        (/\ Answered(p) /\ UserAnchored(req[p])
         /\ req[p].algorithm = DefaultHybrid
         /\ resp[p].source = "engine"
         /\ req[p].interaction_count = 3 /\ resp[p].interaction_count = 3)
            => resp[p].cold_start /\ resp[p].matches_trending


----------------------------------------------------------------------------
(* Properties of update_entity and delete_entity *)

\* C11: update_entity and delete_entity on a (tenant, id, type) that is not
\* present at the moment of the write, also one removed by a concurrent delete
\* after the existence check, fail with EntityNotFound and change no row.
C11_MissingEntityNotFound ==
    \A p \in EntityProcs :
        (epc[p] = "done" /\ eres[p].at \in {"update_check", "update", "delete"}) =>
            /\ eres[p].before = {} => (eres[p].result = "EntityNotFound" /\ ~eres[p].changed)
            /\ eres[p].before # {} => eres[p].result = "Ok"

\* An update passed its existence check, the entity was deleted by the other
\* caller, and the UPDATE found no row
C11_Witness ==
    \E p, q \in EntityProcs :
        /\ p # q /\ epc[p] = "done" /\ epc[q] = "done"
        /\ eres[p].at = "update" /\ eres[p].result = "EntityNotFound"
        /\ eres[q].at = "delete" /\ eres[q].result = "Ok"
        /\ \E e \in entities : e.tenant_id = "B"

----------------------------------------------------------------------------
(* Properties of the hybrid engine's calls *)

\* C12: at every moment at most 100 hybrid generate_recommendations calls hold
\* a permit and have not returned; while 100 hold one, no further call gets to
\* its cache lookup or starts its engine sub-tasks before one of them returns.
C12_AtMostHundredInFlight ==
    /\ [](/\ hybrid_calls.lookup + hybrid_calls.engines <= SemaphorePermits
          /\ concurrency_limit = SemaphorePermits
                                     - (hybrid_calls.lookup + hybrid_calls.engines))
    /\ [][hybrid_calls.lookup + hybrid_calls.engines = SemaphorePermits
              => hybrid_calls'.waiting >= hybrid_calls.waiting]_vars

\* 100 calls hold a permit and a further call waits
C12_Witness ==
    /\ hybrid_calls.lookup + hybrid_calls.engines = SemaphorePermits
    /\ hybrid_calls.engines > 0 /\ hybrid_calls.lookup > 0
    /\ hybrid_calls.waiting > 1

\* C13: on a hybrid cache miss both sub-tasks have run to their end when the
\* call returns; the call returns an error if and only if the collaborative
\* sub-task failed, and a failure of the content sub-task alone gives a result
\* made of the collaborative list only.
C13_OnlyCollaborativeFailureFails ==
    (hybrid_run.pc = "done" /\ hybrid_run.miss) =>
        /\ hybrid_run.collab.state = "done" /\ hybrid_run.content.state = "done"
        /\ hybrid_run.out.result # "Ok" <=> hybrid_run.collab.result # "Ok"
        /\ (hybrid_run.collab.result = "Ok" /\ hybrid_run.content.result # "Ok") =>
               Ids(hybrid_run.out.list) \subseteq Ids(hybrid_run.collab.list)

\* The content sub-task failed, the collaborative one gave a personalised
\* list, and the call returned that list's entities
C13_Witness ==
    /\ hybrid_run.pc = "done" /\ hybrid_run.miss
    /\ hybrid_run.content.result = "DatabaseError"
    /\ hybrid_run.collab.result = "Ok" /\ ~hybrid_run.collab.cold_start
    /\ hybrid_run.out.result = "Ok" /\ hybrid_run.out.list # <<>>
----------------------------------------------------------------------------
(* Claims about the process lifecycle *)

\* C14: every readiness probe answered after the shutdown signal was handled
\* and is_shutting_down was set, and before the process exits, reports not
\* ready (status 503).
C14_NotReadyWhileShuttingDown ==
    (ready_probe.answered /\ ready_probe.shutting_down) => ready_probe.answer.status = 503

\* C15: when the process has exited after a shutdown signal, every request
\* that was in flight at the signal has had its response completed, and no
\* more than the shutdown timeout has passed since the signal.
C15_DrainedWithinTimeout ==
    server = "exited" =>
        /\ \A c \in Connections : in_flight[c].at_signal => in_flight[c].pc = "completed"
        /\ elapsed <= SHUTDOWN_TIMEOUT_SECS

\* The part of C15 that the server keeps: requests in flight at the signal
\* are completed before the process exits
C15_InFlightCompleted ==
    server = "exited" =>
        \A c \in Connections : in_flight[c].at_signal => in_flight[c].pc = "completed"
----------------------------------------------------------------------------
(* Claims about request validation *)

\* The weights of the validated request, as a pair
ValidatedWeights ==
    <<validated.request.algorithm.collaborative_weight,
      validated.request.algorithm.content_weight>>

----------------------------------------------------------------------------
(* Claims about the profile refresh and the model updater *)

\* The stored profile of the user carries the count and the vector of the
\* user's stored interactions
ProfileReflects(ctx, user_id) ==
    \E p \in VectorStore_get_user_profile(ctx, user_id) :
        /\ p.interaction_count = VectorStore_get_user_interaction_count(ctx, user_id)
        /\ p.preference_vector = VectorStore_compute_user_preference_vector(ctx, user_id)

\* C17: once more than the refresh interval has passed after the last
\* interaction write of a user, the user's stored profile reflects all of the
\* user's stored interactions (count and preference vector), whatever the
\* order of the deferred profile updates and the updater's ticks.
C17_ProfileLagBounded ==
    \A u \in DOMAIN last_write :
        clock - last_write[u] > INCREMENTAL_INTERVAL_SECS => ProfileReflects(u[1], u[2])

\* The keys of r that hold a cached recommendation response of the user
ResponseKeysOf(r, ctx, user_id) ==
    {k \in DOMAIN r : /\ r[k].kind = "response"
                      /\ GlobMatch("rec:" \o ctx \o ":" \o user_id \o ":*", k)}

\* C18: after an incremental tick that recomputed and upserted the preference
\* vector of user u, no cached recommendation response of u that was in the
\* distributed cache before the tick is still there.
C18_RecomputeDropsUserResponses ==
    last_update.kind = "incremental" =>
        \A u \in last_update.updated :
            ResponseKeysOf(last_update.before, last_update.ctx, u)
                \cap DOMAIN last_update.after = {}

\* C19: when a full rebuild of a tenant has completed, no cache entry written
\* for the tenant before the rebuild (recommendation, content, hybrid or
\* trending) is still in the distributed cache.  Every entry of SpecUpdater
\* is written for tenant A.
C19_RebuildClearsTenantCaches ==
    (last_update.kind = "full" /\ last_update.ctx = "A") =>
        DOMAIN last_update.before \cap DOMAIN last_update.after = {}
----------------------------------------------------------------------------
(* Claims about deleted entities *)

\* C20: after delete_entity(e) has succeeded, with the interactions that
\* refer to e still stored, e is in no recommendation or trending list
\* computed afterwards.  In SpecDelete every list is computed after the delete.
C20_DeletedEntityNotServed ==
    (epc["c1"] = "done" /\ eres["c1"].at = "delete" /\ eres["c1"].result = "Ok") =>
        \A p \in RequestProcs :
            (pc[p] = "done" /\ resp[p].result = "Ok") =>
                ereq["c1"].entity_id \notin Ids(resp[p].recommendations)

\* The part of C20 that holds: delete_entity leaves the interactions alone
C20_InteractionsRemain ==
    [][(epc["c1"] = "idle" /\ epc'["c1"] = "done") => interactions' = interactions]_vars
----------------------------------------------------------------------------
(* Claims about cache failures *)

\* What get_recommendations answers at its engine step when nothing is cached:
\* the outcome of the handler over the tables alone
AnsweredFromStore(p, response) ==
    \E rk \in Rankings :
        LET out == RecommendationService_route(<<>>, config, req[p], rk)
        IN  IF out.result # "Ok"
            THEN response = ErrResponse(out.result)
            ELSE /\ response.result = "Ok"
                 /\ response.recommendations = out.list
                 /\ response.cold_start = out.cold_start
                 /\ response.source = "engine"

\* What get_trending_entities answers when nothing is cached
TrendingFromStore(p, response) ==
    \E rk \in Rankings :
        /\ response.result = "Ok"
        /\ response.source = "engine"
        /\ response.recommendations =
               NormalizeByMax(VectorStore_get_trending_entity_stats(
                                  req'[p].ctx, req'[p].entity_type, req'[p].count, rk))

CacheErrors == {"ConnectionError", "SerializationError", "KeyNotFound", "InvalidTtl"}

\* C21: while Redis does not answer, a valid recommendation request that misses
\* the in-process cache is handed to the engines and answered with what they
\* compute from the tables, a valid trending request is answered with the
\* trending list computed from the tables, storing the response leaves the
\* response as it was, and no response carries a cache error.
C21_CacheFailureFallsBackToStore ==
    [][~redis_up =>
        \A p \in RequestProcs :
            /\ (pc[p] = "idle" /\ pc'[p] = "engine") => resp'[p] = None
            /\ (pc[p] = "idle" /\ pc'[p] = "done" /\ req'[p].op = "get_recommendations")
                   => \/ resp'[p].result = "InvalidRequest"
                      \/ resp'[p].source = "l1"
            /\ (pc[p] = "idle" /\ pc'[p] = "done" /\ req'[p].op = "get_trending_entities")
                   => TrendingFromStore(p, resp'[p])
            /\ (pc[p] = "engine" /\ pc'[p] # "engine") => AnsweredFromStore(p, resp'[p])
            /\ (pc[p] = "finish" /\ pc'[p] = "done")
                   => /\ resp'[p].result = "Ok"
                      /\ resp'[p].recommendations = resp[p].recommendations
            /\ (pc'[p] = "done" /\ pc[p] # "done") => resp'[p].result \notin CacheErrors
            /\ redis' = redis]_vars

\* Redis is down while it still holds entries, and a request made during the
\* outage has been answered by the engines with a non-empty list
C21_Witness ==
    /\ ~redis_up
    /\ DOMAIN redis # {}
    /\ \E p \in RequestProcs :
           /\ pc[p] = "done"
           /\ resp[p].result = "Ok"
           /\ resp[p].source = "engine"
           /\ resp[p].recommendations # <<>>
           /\ req[p].cache_key \notin DOMAIN redis

----------------------------------------------------------------------------
(* Claims about interaction weights *)

\* The rows a step writes carry the weight registered for their tenant and type
\* when the step is taken, if one is registered
WrittenWithRegisteredWeight ==
    \A i \in interactions' \ interactions :
        \A t \in VectorStore_get_interaction_type(i.tenant_id, i.interaction_type) :
            i.weight = t.weight

\* C22: every interaction written after its tenant registered a weight for its
\* type, by record_interaction or by bulk import, is stored with the
\* registered weight.
C22_RegisteredWeightStored == [][WrittenWithRegisteredWeight]_vars

\* The half of C22 that holds: the rows record_interaction writes
C22_RecordUsesRegisteredWeight ==
    [][(\E w \in InteractionProcs : ipc[w] = "apply" /\ ipc'[w] = "idle")
           => WrittenWithRegisteredWeight]_vars

----------------------------------------------------------------------------
(* Claims about error kinds *)

\* C23: a ContentBased request anchored on an entity_id that the tenant does
\* not have is answered with the error EntityNotFound.
C23_MissingAnchorIsEntityNotFound ==
    \A p \in RequestProcs :
        (/\ pc[p] = "done"
         /\ req[p].op = "get_recommendations"
         /\ req[p].algorithm.name = "ContentBased"
         /\ req[p].entity_id # None
         /\ req[p].entity_type # None
         /\ VectorStore_get_entity(req[p].ctx, req[p].entity_id, req[p].entity_type) = {})
            => resp[p].result = "EntityNotFound"

----------------------------------------------------------------------------
(* Claims about webhook delivery *)

\* The attempts made for one URL so far and the sleeps between them: every
\* attempt but the last has failed, and the sleep before retry n + 1 is
\* 1 s * 2^n
BackoffFollowed(outcomes, sleeps) ==
    /\ \A n \in 1..(Len(outcomes) - 1) : ~outcomes[n]
    /\ \A n \in 1..Len(sleeps) : sleeps[n] = 1000 * 2 ^ (n - 1)

\* C24: for each configured URL in turn, the delivery of an event makes at most
\* max_retries + 1 attempts, sleeps 1 s * 2^n before retry n + 1, ends with Ok
\* at its first successful attempt and with a failure exactly when the initial
\* attempt and all max_retries retries have failed.
C24_BoundedRetriesWithBackoff ==
    \A t \in 1..Len(webhook_tasks) :
        LET task == webhook_tasks[t]
        IN  /\ Len(task.results) = task.url - 1
            /\ \A u \in 1..Len(task.results) :
                   LET r == task.results[u]
                   IN  /\ r.url = task.webhook_urls[u]
                       /\ Len(r.outcomes) \in 1..(task.max_retries + 1)
                       /\ Len(r.sleeps) = Len(r.outcomes) - 1
                       /\ BackoffFollowed(r.outcomes, r.sleeps)
                       /\ (r.result = "Ok") = r.outcomes[Len(r.outcomes)]
                       /\ r.result # "Ok" => /\ r.result = "InternalError"
                                             /\ Len(r.outcomes) = task.max_retries + 1
            /\ task.pc = "done" <=> task.url = Len(task.webhook_urls) + 1
            /\ task.pc # "done" =>
                   /\ Len(task.outcomes) <= task.max_retries
                   /\ \A n \in 1..Len(task.outcomes) : ~task.outcomes[n]
                   /\ Len(task.sleeps) = task.attempt
                   /\ Len(task.outcomes) = task.attempt + (IF task.pc = "sleep" THEN 1 ELSE 0)
                   /\ BackoffFollowed(Append(task.outcomes, TRUE), task.sleeps)

\* A delivery to two URLs has ended: the first URL was given up after the
\* initial attempt and three retries, the second succeeded at its first retry
C24_Witness ==
    \E t \in 1..Len(webhook_tasks) :
        /\ webhook_tasks[t].pc = "done"
        /\ webhook_tasks[t].max_retries = 3
        /\ Len(webhook_tasks[t].results) = 2
        /\ webhook_tasks[t].results[1].result = "InternalError"
        /\ webhook_tasks[t].results[1].sleeps = <<1000, 2000, 4000>>
        /\ webhook_tasks[t].results[2].result = "Ok"
        /\ webhook_tasks[t].results[2].sleeps = <<1000>>

----------------------------------------------------------------------------
(* Claims about feature extraction *)

\* C26: two extract_features calls on maps that hold the same (name, value)
\* pairs return the same vector, whatever the order the pairs are iterated in.
C26_ExtractionIgnoresOrder ==
    \A i, j \in 1..Len(extracted) :
        extracted[i].attributes = extracted[j].attributes
            => extracted[i].features = extracted[j].features

\* What holds of extract_features: the vector is determined by the pairs and
\* the order of iteration together
C26_SameOrderSameVector ==
    \A i, j \in 1..Len(extracted) :
        (/\ extracted[i].attributes = extracted[j].attributes
         /\ extracted[i].iteration = extracted[j].iteration)
            => extracted[i].features = extracted[j].features

----------------------------------------------------------------------------
(* Claims about the weights of a hybrid request *)

\* The engine's configuration with the two weights a request carries
WithRequestWeights(cfg, algorithm) ==
    [cfg EXCEPT !.collaborative_weight = algorithm.collaborative_weight,
                !.content_weight = algorithm.content_weight]

\* C27: the list a valid Hybrid{w_c, w_e} request of a user is answered with is
\* the one the hybrid engine computes from the tables with the weights w_c and
\* w_e of the request: every score is normalized_collab * w_c +
\* normalized_content * w_e.
C27_RequestWeightsUsed ==
    \A p \in RequestProcs :
        (/\ pc[p] \in {"finish", "done"}
         /\ req[p].op = "get_recommendations"
         /\ req[p].algorithm.name = "Hybrid"
         /\ req[p].user_id # None
         /\ resp[p].result = "Ok")
            => \E rk \in Rankings :
                   resp[p].recommendations =
                       HybridEngine_generate_recommendations(
                           <<>>, WithRequestWeights(config, req[p].algorithm), req[p].ctx,
                           req[p].user_id, req[p].entity_type, req[p].count, rk).list

\* The example of C27 holds of combine_scores when it is given the weights:
\* the lists [(e1, 1.0), (e2, 0.5)] and [(e2, 1.0), (e3, 0.5)] with the
\* weights 0.6 and 0.4 combine to e1 = 0.6, e2 = 0.4, e3 = 0 in that order
C27_ExampleCombined ==
    \A rk \in Rankings :
        LET scored(id, score) == [entity_id |-> id, entity_type |-> "product", score |-> score]
        IN  HybridEngine_combine_scores(
                <<scored("e1", SCALE), scored("e2", SCALE \div 2)>>,
                <<scored("e2", SCALE), scored("e3", SCALE \div 2)>>,
                6 * (SCALE \div 10), 4 * (SCALE \div 10), rk)
            = <<scored("e1", 6 * (SCALE \div 10)), scored("e2", 4 * (SCALE \div 10)),
                scored("e3", 0)>>

----------------------------------------------------------------------------
(* Claims about the permit at shutdown *)

----------------------------------------------------------------------------
(* Claims about the collaborative engine *)

\* C29: generate_recommendations of the collaborative engine, for a user with
\* no stored profile or with a stored profile whose preference vector is
\* empty, returns the empty list and no error.
C29_AbsentVectorGivesEmptyList ==
    (/\ collab_call.called
     /\ \A p \in collab_call.profile : p.preference_vector = NoVector)
        => /\ collab_call.result = "Ok"
           /\ collab_call.list = <<>>

\* The half of C29 that holds: a stored profile with an empty vector
C29_EmptyVectorGivesEmptyList ==
    (/\ collab_call.called
     /\ collab_call.profile # {}
     /\ \A p \in collab_call.profile : p.preference_vector = NoVector)
        => /\ collab_call.result = "Ok"
           /\ collab_call.list = <<>>

----------------------------------------------------------------------------
(* Claims about the supplemented list *)

\* The last call was for a user who is not cold and whose personalised list
\* is shorter than the count asked for
SupplementedCall ==
    /\ cold_start_call.called
    /\ ~cold_start_call.cold
    /\ cold_start_call.recommendations.result = "Ok"
    /\ Len(cold_start_call.recommendations.list) < cold_start_call.count

\* No entity id occurs at two positions of the list
DistinctIds(list) ==
    \A i, j \in DOMAIN list : i # j => list[i].entity_id # list[j].entity_id

\* The list is the personalised list followed by entries of the trending list
PersonalisedThenTrending(list, recommendations, trending) ==
    /\ Len(list) >= Len(recommendations)
    /\ SubSeq(list, 1, Len(recommendations)) = recommendations
    /\ \A i \in (Len(recommendations) + 1)..Len(list) : list[i] \in Range(trending)

\* C30: when a user who is not cold gets fewer than count personalised
\* results, the returned list is those results followed by trending entries,
\* contains no entity id more than once, and carries cold_start = false.
C30_SupplementedListIsDistinct ==
    SupplementedCall
        => /\ cold_start_call.result = "Ok"
           /\ PersonalisedThenTrending(cold_start_call.list,
                                       cold_start_call.recommendations.list,
                                       cold_start_call.trending)
           /\ DistinctIds(cold_start_call.list)
           /\ cold_start_call.cold_start = FALSE

\* The parts of C30 other than distinctness
C30_SupplementedListOrderAndFlag ==
    SupplementedCall
        => /\ cold_start_call.result = "Ok"
           /\ PersonalisedThenTrending(cold_start_call.list,
                                       cold_start_call.recommendations.list,
                                       cold_start_call.trending)
           /\ cold_start_call.cold_start = FALSE

\* C30 holds when the calls filter by entity type
C30_DistinctWithTypeFilter ==
    (SupplementedCall /\ cold_start_call.entity_type # None)
        => DistinctIds(cold_start_call.list)

\* A supplemented call whose list has a personalised entry and a trending one
C30_Witness ==
    /\ SupplementedCall
    /\ cold_start_call.recommendations.list # <<>>
    /\ Len(cold_start_call.list) > Len(cold_start_call.recommendations.list)

----------------------------------------------------------------------------
(* Claims about the full rebuild *)

\* SELECT DISTINCT user_id FROM interactions WHERE tenant_id = ctx: the users
\* of the tenant that have stored interactions
UsersWithInteractions(ctx) ==
    {i.user_id : i \in {j \in interactions : j.tenant_id = ctx}}

\* C31: a full rebuild for a tenant recomputes the preference vector of every
\* user of that tenant that has stored interactions: every such user is among
\* the users the rebuild walks.
C31_RebuildRecomputesEveryUser ==
    [][(last_update' # last_update /\ last_update'.kind = "full")
           => UsersWithInteractions(last_update'.ctx) \subseteq last_update'.updated]_vars

\* What holds instead: the users walked are those with a row in user_profiles
C31_RebuildWalksProfiles ==
    [][(last_update' # last_update /\ last_update'.kind = "full")
           => last_update'.updated =
                  {p.user_id : p \in {q \in user_profiles : q.tenant_id = last_update'.ctx}}]_vars

----------------------------------------------------------------------------
(* Claims about the diversity filter *)

\* The entity types of a list
TypesOf(list) == {list[i].entity_type : i \in DOMAIN list}

\* combined is the result of the ranking for count and rk, diversity is
\* enabled, the merged candidates span min_categories types and count is at
\* least min_categories
DiverseRanking(count, rk) ==
    /\ combined = HybridEngine_rank(config, collab_in, content_in, count, rk)
    /\ config.enable_diversity
    /\ Cardinality(TypesOf(HybridEngine_combine_scores(
                               collab_in, content_in, config.collaborative_weight,
                               config.content_weight, rk))) >= config.min_categories
    /\ count >= config.min_categories

\* C32: with diversity enabled, if the merged candidate list spans at least
\* min_categories distinct entity types and count is at least min_categories,
\* the final hybrid result (after the re-sort and the truncation to count)
\* contains at least min_categories distinct entity types.
C32_ResultSpansMinCategories ==
    \A count \in DiversityCounts, rk \in Rankings :
        DiverseRanking(count, rk)
            => Cardinality(TypesOf(combined)) >= config.min_categories

\* What the filter itself gives, before the re-sort and the truncation
C32_FilterSpansMinCategories ==
    \A rk \in Rankings :
        LET merged == HybridEngine_combine_scores(
                          collab_in, content_in, config.collaborative_weight,
                          config.content_weight, rk)
            filtered == HybridEngine_apply_diversity_filter(merged, config.min_categories)
        IN  Cardinality(TypesOf(merged)) >= config.min_categories
                => /\ Cardinality(TypesOf(filtered)) >= config.min_categories
                   /\ Cardinality(TypesOf(SubSeq(filtered, 1, config.min_categories)))
                          = config.min_categories

----------------------------------------------------------------------------
(* Claims about the trending task's cache entries *)

\* The Vec<ScoredEntity> with the values the trending task stored
WrittenList(value) ==
    [i \in DOMAIN value.list |->
        [entity_id |-> value.list[i][1], entity_type |-> value.list[i][2],
         score |-> value.list[i][3]]]

\* Process p makes a get_trending_entities call in this step while an entry
\* of the trending task is stored under the key of the call
ReadsTaskEntry(p) ==
    /\ pc[p] = "idle" /\ pc'[p] = "done"
    /\ req'[p].op = "get_trending_entities"
    /\ redis_up
    /\ req'[p].cache_key \in DOMAIN redis
    /\ redis[req'[p].cache_key].kind = "tuples"

\* C33: a trending list that the trending task wrote for (tenant, type, n) is
\* what a later get_trending_entities(tenant, type, n) returns while that
\* cache entry is present: the reader finds the entry under the key the
\* writer used and accepts the value format the writer stored.
C33_ReaderReturnsTaskEntry ==
    [][\A p \in RequestProcs :
           ReadsTaskEntry(p)
               => /\ resp'[p].result = "Ok"
                  /\ resp'[p].recommendations = WrittenList(redis[req'[p].cache_key])]_vars

\* What the service's reader does with an entry of the task: the value fails
\* to deserialize, the list is computed from the tables and stored over the
\* task's entry
C33_ReaderReplacesTaskEntry ==
    [][\A p \in RequestProcs :
           ReadsTaskEntry(p)
               => /\ resp'[p].source = "engine"
                  /\ RedisCache_get(redis, req'[p].cache_key, "list").result
                         = "SerializationError"
                  /\ redis'[req'[p].cache_key].kind = "list"]_vars

----------------------------------------------------------------------------
(* Claims about the quiescence of the incremental ticks *)

\* The last tick reported no updated user and no updated entity (and so
\* emitted no model_updated event)
QuietTick ==
    last_update.kind = "incremental"
        => /\ last_update.updated = {}
           /\ last_update.entities_updated = 0

\* C34: if from some point on no caller records an interaction and no caller
\* creates or updates an entity, then after finitely many incremental ticks
\* every later tick reports zero updated users and zero updated entities.
\* In SpecQuiescence each import changes the tables at most once, so every
\* behaviour has such a point.
C34_TicksBecomeQuiet == <>[]QuietTick

\* The users' side of C34: from some point on every tick reports zero users
C34_UserTicksBecomeQuiet ==
    <>[](last_update.kind = "incremental" => last_update.updated = {})

----------------------------------------------------------------------------
(* Claims about the task of start_full_rebuild *)

\* The rebuilds the task has started so far, by position
RebuildStarts == IF full_rebuild_task.pc = "unspawned" THEN <<>> ELSE full_rebuild_task.starts

\* C35: the start times of any two consecutive full rebuilds of the task are
\* at least one full-rebuild interval apart, and the first one starts no
\* earlier than the computed low-traffic time
C35_RebuildsOneIntervalApart ==
    /\ \A i \in 2..Len(RebuildStarts) :
           RebuildStarts[i] - RebuildStarts[i - 1] >= FULL_REBUILD_INTERVAL_HOURS
    /\ Len(RebuildStarts) > 0 => RebuildStarts[1] >= full_rebuild_task.low_traffic

\* The second half of C35 alone: the first rebuild starts at the low-traffic
\* time computed when the task was spawned
C35_FirstRebuildAtLowTraffic ==
    Len(RebuildStarts) > 0
        => /\ RebuildStarts[1] = full_rebuild_task.low_traffic
           /\ RebuildStarts[1] % HOURS_PER_DAY = LOW_TRAFFIC_HOUR

\* What the code gives instead of the first half: the second rebuild starts
\* the moment the first one returns, and from the third on every rebuild
\* starts no earlier than a tick of the timer, which are one interval apart
C35_SecondRebuildFollowsFirst ==
    [][(full_rebuild_task.pc = "ticking" /\ Len(full_rebuild_task.starts) = 1
            /\ full_rebuild_task'.pc = "rebuilding")
        => full_rebuild_task'.now = full_rebuild_task.now]_vars

----------------------------------------------------------------------------
(* Claims about the entity_type filter of cached responses *)

\* The response p holds is a list, and every entity of it has the type the
\* request asked for
AnswersFilter(p) ==
    \A i \in DOMAIN resp[p].recommendations :
        resp[p].recommendations[i].entity_type = req[p].entity_type

\* p's call was answered from one of the two cache tiers
ServedFromCache(p) ==
    /\ pc[p] = "done"
    /\ resp[p].result = "Ok"
    /\ resp[p].source \in {"l1", "l2"}

\* C36: a response served from either cache tier was computed under the
\* entity_type filter of the request it answers, so every entity of it has
\* the type the request asks for
C36_CachedResponseAnswersFilter ==
    \A p \in RequestProcs :
        (ServedFromCache(p) /\ req[p].entity_type # None) => AnswersFilter(p)

\* The responses the engines compute for a request do answer its filter
C36_ComputedResponseAnswersFilter ==
    \A p \in RequestProcs :
        (pc[p] = "done" /\ resp[p].result = "Ok" /\ resp[p].source = "engine"
            /\ req[p].entity_type # None) => AnswersFilter(p)

----------------------------------------------------------------------------
(* Claims about the cache entries the updater deletes *)

\* The key is one of tenant t's: rec:{t}:... or trending:{t}:...
KeyOfTenant(key, t) ==
    \/ GlobMatch("rec:" \o t \o ":*", key)
    \/ GlobMatch("trending:" \o t \o ":*", key)

\* The keys the updater's last run deleted
DeletedByUpdate == DOMAIN last_update.before \ DOMAIN last_update.after

\* C37: the cache deletions the updater performs on behalf of tenant t remove
\* only entries that belong to tenant t
C37_UpdaterDeletesOwnTenantOnly ==
    last_update.kind # "none"
        => \A key \in DeletedByUpdate : KeyOfTenant(key, last_update.ctx)

\* The trending pattern alone keeps to its tenant: what it matches belongs to
\* the tenant it was built for
C37_TrendingPatternKeepsToTenant ==
    \A t \in Tenants, key \in DOMAIN redis :
        GlobMatch("trending:" \o t \o ":*", key) => KeyOfTenant(key, t)

\* C37 for the incremental tick alone (the per-user pattern and the trending
\* pattern)
C37_TickDeletesOwnTenantOnly ==
    last_update.kind = "incremental"
        => \A key \in DeletedByUpdate : KeyOfTenant(key, last_update.ctx)

----------------------------------------------------------------------------
(* Claims about the vector indexes *)

\* No rebuild is in progress: none has begun, or the last one completed,
\* failed or was aborted
RebuildStopped == index_rebuild.pc \in {"idle", "completed", "failed", "aborted"}

BothIndexesExist == index_rebuild.entity_index /\ index_rebuild.user_index

\* C38: whenever an index rebuild has stopped (completed, failed or aborted)
\* both the entity and the user vector index exist; an index is absent only
\* while a rebuild is in progress
C38_StoppedRebuildLeavesIndexes == RebuildStopped => BothIndexesExist

\* What holds instead: a rebuild that completed leaves both indexes
C38_CompletedRebuildLeavesIndexes ==
    index_rebuild.pc \in {"idle", "completed"} => BothIndexesExist

----------------------------------------------------------------------------
(* Claims about the range of the scores *)

\* p holds the response of a Collaborative or ContentBased request
SingleEngineResponse(p) ==
    /\ pc[p] = "done"
    /\ req[p].op = "get_recommendations"
    /\ req[p].algorithm.name \in {"Collaborative", "ContentBased"}
    /\ resp[p].result = "Ok"

\* C39: every score in a Collaborative or ContentBased response,
\* user-anchored or entity-anchored, lies in [0, 1]
C39_ScoresInUnitInterval ==
    \A p \in RequestProcs :
        SingleEngineResponse(p)
            => \A i \in DOMAIN resp[p].recommendations :
                   /\ resp[p].recommendations[i].score >= 0
                   /\ resp[p].recommendations[i].score <= SCALE

----------------------------------------------------------------------------
(* Claims about the creation of the database pool *)

\* The waits of a pool creation that fails every time
BackoffWaits == <<INITIAL_BACKOFF_MS, 2 * INITIAL_BACKOFF_MS>>

PoolRetryStarted == pool_retry.pc # "unstarted"

\* C40: pool creation makes at most 3 connection attempts with exponentially
\* growing waits between them (1 s, then 2 s), returns the first pool that
\* connects, and returns an error once the third attempt has failed
C40_PoolCreationBounded ==
    PoolRetryStarted =>
        /\ Len(pool_retry.attempts) <= max_retries
        /\ Len(pool_retry.waits) <= Len(BackoffWaits)
        /\ \A i \in DOMAIN pool_retry.waits : pool_retry.waits[i] = BackoffWaits[i]
        \* every attempt but the last one failed, and a wait lies between two attempts
        /\ \A i \in DOMAIN pool_retry.attempts :
               i < Len(pool_retry.attempts) => ~pool_retry.attempts[i]
        /\ Len(pool_retry.waits) = IF pool_retry.pc = "create_pool"
                                    THEN Len(pool_retry.attempts)
                                    ELSE Len(pool_retry.attempts) - 1
        /\ pool_retry.pc = "returned" =>
               /\ Len(pool_retry.attempts) >= 1
               /\ pool_retry.result = "Ok" <=> pool_retry.attempts[Len(pool_retry.attempts)]
               /\ pool_retry.result = "Err" <=> /\ Len(pool_retry.attempts) = max_retries
                                                /\ \A i \in DOMAIN pool_retry.attempts :
                                                       ~pool_retry.attempts[i]
        /\ pool_retry.pc # "returned" => pool_retry.result = None

\* The third attempt has failed and the error is returned after both waits
C40_Witness ==
    /\ PoolRetryStarted
    /\ pool_retry.pc = "returned"
    /\ pool_retry.result = "Err"
    /\ pool_retry.attempts = <<FALSE, FALSE, FALSE>>
    /\ pool_retry.waits = BackoffWaits

\* C40, its last part: pool creation never retries indefinitely, it returns
C40_PoolCreationReturns == <>(pool_retry.pc = "returned")

====
